---- MODULE Spec2Model ----
(***************************************************************************)
(* A model of the CDA downloader: the session authenticator (core/auth.py), *)
(* the CSRF token resolver, the quality selector (utils/helpers.py,         *)
(* core/video_info.py, core/downloader.py), the video resolver              *)
(* (core/video_info.py) and the command handler (cli/cli_handler.py).       *)
(*                                                                         *)
(* Strings are TLA+ strings used as sequences of one-character strings.     *)
(* An optional value (Python None or a value) is a record [some, val].      *)
(* The outcome of a call is a record with the exception raised ("none"      *)
(* when the call returns) and the value returned.                           *)
(***************************************************************************)
EXTENDS Integers, Sequences, FiniteSets, TLC

VARIABLES
    logged_in, username, last,          \* AuthService fields, and the last call made on it
    tok_page, tok_out,                  \* a login page and what the token resolver made of it
    rk_label, rk_out,                   \* a quality label and its rank
    q_map, q_pref, q_out,               \* a quality map, a preferred label, the selector's answer
    r_in, r_out,                        \* a video page as served, and get_video_info's outcome
    l_page, l_out,                      \* a listing page, and what the listing parser made of it
    c_in, c_pc, c_page, c_loc, c_tot, c_hist, c_out, \* a folder crawl: arguments, position, current_page, locals of the page, totals, what was fetched and attempted, outcome
    d_in, d_pc, d_loc, d_file, d_calls, d_out, \* download: what it is given, position, locals, the file, the callbacks, the outcome
    nm_title, nm_out,                   \* a title and the file name sanitize_filename makes of it
    bt_in, bt_pc, bt_dir, bt_loc, bt_files, bt_out, \* a batch download: arguments, position, the downloader's download_dir, locals, the files on disk, outcome
    mn_dir, mn_log,                     \* the interactive menu: the downloader's download_dir, the operations run
    rn_logged_in, rn_cred, rn_pc, rn_log, \* the interactive runner: its own logged_in flag, the credentials kept, position, the menu operations run
    fn_in, fn_out, \* a video as served and a download directory, and the file download would write
    eq_in, eq_out, \* a folder as served to both crawl implementations, and what each was seen to do
    cli_pc, cli_args, cli_ops, cli_exit, cli_end \* one run of a command: position, args, operations started, exit code, how the command ended

authVars == <<logged_in, username, last>>
tokVars  == <<tok_page, tok_out>>
rankVars == <<rk_label, rk_out>>
qualVars == <<q_map, q_pref, q_out>>
resVars  == <<r_in, r_out>>
listVars == <<l_page, l_out>>
dlVars   == <<d_in, d_pc, d_loc, d_file, d_calls, d_out>>
crawlVars == <<c_in, c_pc, c_page, c_loc, c_tot, c_hist, c_out>>
nameVars == <<nm_title, nm_out>>
batchVars == <<bt_in, bt_pc, bt_dir, bt_loc, bt_files, bt_out>>
menuVars == <<mn_dir, mn_log>>
runVars == <<rn_logged_in, rn_cred, rn_pc, rn_log>>
fileVars == <<fn_in, fn_out>>
equivVars == <<eq_in, eq_out>>
cliVars  == <<cli_pc, cli_args, cli_ops, cli_exit, cli_end>>
vars     == <<logged_in, username, last, tok_page, tok_out, rk_label, rk_out, q_map, q_pref, q_out,
              r_in, r_out, l_page, l_out,
              d_in, d_pc, d_loc, d_file, d_calls, d_out,
              c_in, c_pc, c_page, c_loc, c_tot, c_hist, c_out,
              nm_title, nm_out, bt_in, bt_pc, bt_dir, bt_loc, bt_files, bt_out, mn_dir, mn_log,
              rn_logged_in, rn_cred, rn_pc, rn_log,
              fn_in, fn_out,
              eq_in, eq_out,
              cli_pc, cli_args, cli_ops, cli_exit, cli_end>>

----------------------------------------------------------------------------
(* Optional values and strings *)

None == [some |-> FALSE, val |-> ""]
Some(v) == [some |-> TRUE, val |-> v]

\* Python truthiness of an Optional[str]: None and "" are falsy.
Truthy(o) == o.some /\ o.val # ""

\* Python `a or b` on Optional[str] values.
PyOr(a, b) == IF Truthy(a) THEN a ELSE b

Ch(s, i) == SubSeq(s, i, i)

UpperLetters ==
    { "A", "B", "C", "D", "E", "F", "G", "H", "I", "J", "K", "L", "M",
      "N", "O", "P", "Q", "R", "S", "T", "U", "V", "W", "X", "Y", "Z" }

LowerLetters ==
    { "a", "b", "c", "d", "e", "f", "g", "h", "i", "j", "k", "l", "m",
      "n", "o", "p", "q", "r", "s", "t", "u", "v", "w", "x", "y", "z" }

\* str.lower() on one character.
LowerCh(c) ==
    CASE c = "A" -> "a" [] c = "B" -> "b" [] c = "C" -> "c" [] c = "D" -> "d" [] c = "E" -> "e" [] c = "F" -> "f"
      [] c = "G" -> "g" [] c = "H" -> "h" [] c = "I" -> "i" [] c = "J" -> "j" [] c = "K" -> "k" [] c = "L" -> "l"
      [] c = "M" -> "m" [] c = "N" -> "n" [] c = "O" -> "o" [] c = "P" -> "p" [] c = "Q" -> "q" [] c = "R" -> "r"
      [] c = "S" -> "s" [] c = "T" -> "t" [] c = "U" -> "u" [] c = "V" -> "v" [] c = "W" -> "w" [] c = "X" -> "x"
      [] c = "Y" -> "y" [] c = "Z" -> "z"
      [] OTHER -> c

\* str.lower()
RECURSIVE Lower(_)
Lower(s) == IF s = "" THEN "" ELSE LowerCh(Head(s)) \o Lower(Tail(s))

\* Python `needle in hay` on strings.
Contains(hay, needle) ==
    \E i \in 0..Len(hay) :
        /\ i + Len(needle) <= Len(hay)
        /\ SubSeq(hay, i + 1, i + Len(needle)) = needle

StartsWithAt(s, i, w) ==
    /\ i + Len(w) - 1 <= Len(s)
    /\ SubSeq(s, i, i + Len(w) - 1) = w

IsDigit(c) == c \in {"0", "1", "2", "3", "4", "5", "6", "7", "8", "9"}
IsQuote(c) == c \in {"\"", "'"}
IsSpace(c) == c \in {" ", "\t", "\n"}

----------------------------------------------------------------------------
(* Exceptions (utils/exceptions.py) *)

NoExc == "none"
TokenError == "TokenError"
AuthenticationError == "AuthenticationError"
VideoInfoError == "VideoInfoError"
DownloadError == "DownloadError"

----------------------------------------------------------------------------
(* Token resolver: AuthService.get_csrf_token, the parsing of the page *)

\* config.login_url, config.base_url + "/logout"
login_url == "https://www.cda.pl/login"
logout_url == "https://www.cda.pl/logout"

\* One element of the parsed login page, in document order.
Input(n, v) == [tag |-> "input", name |-> n, value |-> v, content |-> None, text |-> ""]
Meta(n, c) == [tag |-> "meta", name |-> n, value |-> None, content |-> c, text |-> ""]
Script(t) == [tag |-> "script", name |-> "", value |-> None, content |-> None, text |-> t]

\* soup.find(tag, {'name': name}): the first such element of the page, or None.
\* The result is [found, el]; a Tag is always truthy.
Find(page, tag, name) ==
    LET hits == {i \in 1..Len(page) : page[i].tag = tag /\ page[i].name = name}
    IN  IF hits = {} THEN [found |-> FALSE, el |-> Input("", None)]
        ELSE [found |-> TRUE, el |-> page[CHOOSE i \in hits : \A j \in hits : i <= j]]

\* First index >= i of s that is past the end or fails P; used for \s* and [^"']+.
SkipSpaces(s, i) ==
    CHOOSE j \in i..(Len(s) + 1) :
        /\ \A k \in i..(j - 1) : IsSpace(Ch(s, k))
        /\ (j = Len(s) + 1 \/ ~IsSpace(Ch(s, j)))

SkipNonQuotes(s, i) ==
    CHOOSE j \in i..(Len(s) + 1) :
        /\ \A k \in i..(j - 1) : ~IsQuote(Ch(s, k))
        /\ (j = Len(s) + 1 \/ IsQuote(Ch(s, j)))

TokenNames == <<"_token", "csrf_token", "token">>

\* The pattern ["'](_token|csrf_token|token)["']:\s*["']([^"']+)["'] tried at
\* position i of s: [ok, val], val being group 2.
TokenPairAt(s, i) ==
    LET names == {k \in 1..Len(TokenNames) : StartsWithAt(s, i + 1, TokenNames[k])}
        fail == [ok |-> FALSE, val |-> ""]
    IN  IF ~(i <= Len(s) /\ IsQuote(Ch(s, i))) \/ names = {} THEN fail
        ELSE LET k == CHOOSE n \in names : \A m \in names : n <= m
                 a == i + 1 + Len(TokenNames[k])      \* the closing quote of the name
                 b == SkipSpaces(s, a + 2)            \* the opening quote of the value
                 e == SkipNonQuotes(s, b + 1)         \* the closing quote of the value
             IN  IF /\ a + 1 <= Len(s)
                    /\ IsQuote(Ch(s, a))
                    /\ Ch(s, a + 1) = ":"
                    /\ b <= Len(s)
                    /\ IsQuote(Ch(s, b))
                    /\ e <= Len(s)
                    /\ e > b + 1
                 THEN [ok |-> TRUE, val |-> SubSeq(s, b + 1, e - 1)]
                 ELSE fail

\* re.search of the pattern in s: the leftmost match.
TokenPairSearch(s) ==
    LET hits == {i \in 1..Len(s) : TokenPairAt(s, i).ok}
    IN  IF hits = {} THEN [ok |-> FALSE, val |-> ""]
        ELSE TokenPairAt(s, CHOOSE i \in hits : \A j \in hits : i <= j)

\* The loop over soup.find_all('script'): the first script that mentions csrf
\* or token and holds a pair.
ScriptToken(page) ==
    LET hits == {i \in 1..Len(page) :
                    /\ page[i].tag = "script"
                    /\ page[i].text # ""
                    /\ (Contains(Lower(page[i].text), "csrf") \/ Contains(Lower(page[i].text), "token"))
                    /\ TokenPairSearch(page[i].text).ok}
    IN  IF hits = {} THEN None
        ELSE Some(TokenPairSearch(page[CHOOSE i \in hits : \A j \in hits : i <= j].text).val)

\* token_input = find(input _token) or find(input csrf_token) or find(input token)
\*               or find(meta csrf-token)
TokenInput(page) ==
    LET a == Find(page, "input", "_token")
        b == Find(page, "input", "csrf_token")
        c == Find(page, "input", "token")
        d == Find(page, "meta", "csrf-token")
    IN  IF a.found THEN a ELSE IF b.found THEN b ELSE IF c.found THEN c ELSE d

\* The body of get_csrf_token once the page is fetched: [exc, val].
ResolveToken(page) ==
    LET ti == TokenInput(page)
        token_value == IF ti.found THEN PyOr(ti.el.value, ti.el.content) ELSE None
        js == ScriptToken(page)
    IN  IF Truthy(token_value) THEN [exc |-> NoExc, val |-> token_value.val]
        ELSE IF js.some THEN [exc |-> NoExc, val |-> js.val]
        ELSE [exc |-> TokenError, val |-> ""]

\* The elements login pages are built from, and the pages: every sequence of
\* at most MaxElems of them.
MaxElems == 2

Elements ==
    { Input("_token", Some("t1")), Input("_token", Some("")), Input("_token", None),
      Input("csrf_token", Some("t2")), Input("token", Some("t3")),
      Input("user", Some("zz")),
      Meta("csrf-token", Some("abc123")), Meta("csrf-token", Some("")),
      Script("var a = 1;"),
      Script("{\"_token\": \"s1\"}"),
      Script("x={'token' : 'no', 'csrf_token':\n's2'}"),
      Script("{\"token\": \"\"}") }

SeqsUpTo(S, n) == UNION {[1..k -> S] : k \in 0..n}

Pages == SeqsUpTo(Elements, MaxElems)

TokInit ==
    /\ tok_page \in Pages
    /\ tok_out = [done |-> FALSE, exc |-> NoExc, val |-> ""]

TokIdle ==
    /\ tok_page = <<>>
    /\ tok_out = [done |-> FALSE, exc |-> NoExc, val |-> ""]

\* The resolver is applied to the page.
TokResolve ==
    /\ ~tok_out.done
    /\ tok_out' = [done |-> TRUE, exc |-> ResolveToken(tok_page).exc,
                   val |-> ResolveToken(tok_page).val]
    /\ UNCHANGED tok_page

----------------------------------------------------------------------------
(* Session authenticator: AuthService (core/auth.py) *)

\* What the server does with one request: the transport fails
\* (requests.RequestException from session.get/post), the status is an error
\* (raise_for_status raises HTTPError, a RequestException), or a body arrives.
Transport == "transport"
HttpError == "http_error"
Ok == "ok"
Unused == "unused"

Get(url) == [method |-> "GET", url |-> url]
Post(url) == [method |-> "POST", url |-> url]

NoData == [username |-> "", password |-> "", _token |-> "", remember |-> ""]

\* The outcome of get_csrf_token on a page that was served: what the parsing
\* gave, after the one request for the page.
Fetched(res) == [exc |-> res.exc, val |-> res.val, reqs |-> <<Get(login_url)>>]

\* get_csrf_token without its except clause: the RequestException of the
\* page fetch reaches login, which reports it as AuthenticationError.
get_csrf_token_Uncaught(fetch) ==
    IF fetch.kind # Ok
    THEN [exc |-> AuthenticationError, val |-> "", reqs |-> <<Get(login_url)>>]
    ELSE Fetched(ResolveToken(fetch.page))

\* get_csrf_token: fetch is [kind, page]. [exc, val, reqs].
get_csrf_token(fetch) ==
    IF fetch.kind # Ok
    THEN [exc |-> TokenError, val |-> "", reqs |-> <<Get(login_url)>>]
    ELSE Fetched(ResolveToken(fetch.page))

\* The success test without the two lower() calls on the response text.
LoginSucceeded_CaseSensitive(user, text) ==
    Contains(text, "premium") /\ Contains(text, user)

\* The success test of login: both the premium marker and the username occur
\* in the lower-cased response text.
LoginSucceeded(user, text) ==
    Contains(Lower(text), "premium") /\ Contains(Lower(text), Lower(user))

\* The try block of login with the username recorded before the success test.
login_try_RecordsEarly(st, user, password, post, tok) ==
    LET login_data == [username |-> user, password |-> password,
                       _token |-> tok.val, remember |-> "1"]
    IN  IF tok.exc # NoExc
        THEN [logged_in |-> st.logged_in, username |-> st.username, ret |-> FALSE,
              exc |-> tok.exc, reqs |-> tok.reqs, data |-> NoData]
        ELSE IF post.kind # Ok
        THEN [logged_in |-> st.logged_in, username |-> Some(user), ret |-> FALSE,
              exc |-> AuthenticationError,
              reqs |-> tok.reqs \o <<Post(login_url)>>, data |-> login_data]
        ELSE [logged_in |-> LoginSucceeded(user, post.text), username |-> Some(user),
              ret |-> LoginSucceeded(user, post.text), exc |-> NoExc,
              reqs |-> tok.reqs \o <<Post(login_url)>>, data |-> login_data]

\* The try block of login, tok being the outcome of get_csrf_token.
login_try(st, user, password, post, tok) ==
    LET login_data == [username |-> user, password |-> password,
                       _token |-> tok.val, remember |-> "1"]
    IN  IF tok.exc # NoExc
        THEN [logged_in |-> st.logged_in, username |-> st.username, ret |-> FALSE,
              exc |-> tok.exc, reqs |-> tok.reqs, data |-> NoData]
        ELSE IF post.kind # Ok
        THEN [logged_in |-> st.logged_in, username |-> st.username, ret |-> FALSE,
              exc |-> AuthenticationError,
              reqs |-> tok.reqs \o <<Post(login_url)>>, data |-> login_data]
        ELSE IF LoginSucceeded(user, post.text)
        THEN [logged_in |-> TRUE, username |-> Some(user), ret |-> TRUE,
              exc |-> NoExc,
              reqs |-> tok.reqs \o <<Post(login_url)>>, data |-> login_data]
        ELSE [logged_in |-> st.logged_in, username |-> st.username, ret |-> FALSE,
              exc |-> NoExc,
              reqs |-> tok.reqs \o <<Post(login_url)>>, data |-> login_data]

\* login without the early return of an authenticated session.
login_Again(st, user, password, fetch, post) ==
    login_try(st, user, password, post, get_csrf_token(fetch))

\* login(username, password) on the state st = [logged_in, username], the
\* server answering the page fetch with `fetch` and the form post with `post`
\* = [kind, text]. The result is the state after, the value returned, the
\* exception raised, the requests issued and the form data posted.
login(st, user, password, fetch, post) ==
    IF st.logged_in
    THEN [logged_in |-> st.logged_in, username |-> st.username, ret |-> TRUE,
          exc |-> NoExc, reqs |-> <<>>, data |-> NoData]
    ELSE login_try(st, user, password, post, get_csrf_token(fetch))

\* logout without `self.username = None`.
logout_KeepsName(st, resp) ==
    IF ~st.logged_in
    THEN [logged_in |-> st.logged_in, username |-> st.username, ret |-> TRUE,
          exc |-> NoExc, reqs |-> <<>>, data |-> NoData]
    ELSE IF resp.kind = Ok
    THEN [logged_in |-> FALSE, username |-> st.username, ret |-> TRUE,
          exc |-> NoExc, reqs |-> <<Get(logout_url)>>, data |-> NoData]
    ELSE [logged_in |-> st.logged_in, username |-> st.username, ret |-> FALSE,
          exc |-> NoExc, reqs |-> <<Get(logout_url)>>, data |-> NoData]

\* logout that gives the session up also when the request fails.
logout_DropsOnFailure(st, resp) ==
    IF ~st.logged_in
    THEN [logged_in |-> st.logged_in, username |-> st.username, ret |-> TRUE,
          exc |-> NoExc, reqs |-> <<>>, data |-> NoData]
    ELSE [logged_in |-> FALSE, username |-> None, ret |-> resp.kind = Ok,
          exc |-> NoExc, reqs |-> <<Get(logout_url)>>, data |-> NoData]

\* logout() on the state st, the server answering the logout request with resp.
logout(st, resp) ==
    IF ~st.logged_in
    THEN [logged_in |-> st.logged_in, username |-> st.username, ret |-> TRUE,
          exc |-> NoExc, reqs |-> <<>>, data |-> NoData]
    ELSE IF resp.kind = Ok
    THEN [logged_in |-> FALSE, username |-> None, ret |-> TRUE,
          exc |-> NoExc, reqs |-> <<Get(logout_url)>>, data |-> NoData]
    ELSE [logged_in |-> st.logged_in, username |-> st.username, ret |-> FALSE,
          exc |-> NoExc, reqs |-> <<Get(logout_url)>>, data |-> NoData]

\* ensure_logged_in()
ensure_logged_in(st) ==
    IF ~st.logged_in
    THEN [logged_in |-> st.logged_in, username |-> st.username, ret |-> FALSE,
          exc |-> AuthenticationError, reqs |-> <<>>, data |-> NoData]
    ELSE [logged_in |-> st.logged_in, username |-> st.username, ret |-> TRUE,
          exc |-> NoExc, reqs |-> <<>>, data |-> NoData]

\* The environment of the authenticator: who logs in, and what the server says.
Users == {"bob", "Al", ""}
Passwords == {"pw", "bad"}

LoginPages ==
    { <<>>,
      <<Meta("csrf-token", Some("abc123"))>>,
      <<Input("_token", Some("t1")), Meta("csrf-token", Some("abc123"))>>,
      <<Input("_token", Some("")), Meta("csrf-token", Some("abc123"))>>,
      <<Script("{\"_token\": \"s1\"}")>> }

Bodies ==
    { "", "premium bob", "Witaj BOB! Konto PREMIUM", "Premium", "bob",
      "premiu bob", "konto premium: al", "Zaloguj" }

NoPage == [kind |-> Unused, page |-> <<>>]
NoResp == [kind |-> Unused, text |-> ""]

Fetches ==
    {[kind |-> k, page |-> <<>>] : k \in {Transport, HttpError}}
        \cup {[kind |-> Ok, page |-> pg] : pg \in LoginPages}

Responses ==
    {[kind |-> k, text |-> ""] : k \in {Transport, HttpError}}
        \cup {[kind |-> Ok, text |-> b] : b \in Bodies}

AuthState == [logged_in |-> logged_in, username |-> username]

NoCall ==
    [op |-> "none", pre |-> [logged_in |-> FALSE, username |-> None],
     user |-> "", password |-> "", fetch |-> NoPage, post |-> NoResp,
     ret |-> FALSE, exc |-> NoExc, reqs |-> <<>>, data |-> NoData]

\* AuthService.__init__
AuthInit ==
    /\ logged_in = FALSE
    /\ username = None
    /\ last = NoCall

\* A call of login: the requests that were not issued are recorded as unused.
\* The call op with outcome r takes effect: the service's fields change and
\* the call is recorded, the answers to requests r did not issue as unused.
Called(op, user, password, fetch, post, r) ==
    /\ logged_in' = r.logged_in
    /\ username' = r.username
    /\ last' = [op |-> op, pre |-> AuthState, user |-> user, password |-> password,
                fetch |-> IF op = "login" /\ Len(r.reqs) >= 1 THEN fetch ELSE NoPage,
                post |-> IF (op = "login" /\ Len(r.reqs) >= 2)
                            \/ (op = "logout" /\ Len(r.reqs) >= 1)
                         THEN post ELSE NoResp,
                ret |-> r.ret, exc |-> r.exc, reqs |-> r.reqs, data |-> r.data]

Login(user, password, fetch, post) ==
    Called("login", user, password, fetch, post,
           login(AuthState, user, password, fetch, post))

Logout(resp) == Called("logout", "", "", NoPage, resp, logout(AuthState, resp))

EnsureLoggedIn ==
    Called("ensure_logged_in", "", "", NoPage, NoResp, ensure_logged_in(AuthState))

AuthLogin == \E u \in Users, p \in Passwords, f \in Fetches, r \in Responses : Login(u, p, f, r)
\* The body of the answer to the logout request is never read.
LogoutResponses == {[kind |-> k, text |-> ""] : k \in {Transport, HttpError, Ok}}

AuthLogout == \E r \in LogoutResponses : Logout(r)

----------------------------------------------------------------------------
(* Quality selector: parse_quality_from_string, sort_qualities             *)
(* (utils/helpers.py), VideoInfo.get_best_quality (core/video_info.py),    *)
(* DownloaderService._select_quality (core/downloader.py)                  *)

DigitVal(c) ==
    CASE c = "0" -> 0 [] c = "1" -> 1 [] c = "2" -> 2 [] c = "3" -> 3 [] c = "4" -> 4
      [] c = "5" -> 5 [] c = "6" -> 6 [] c = "7" -> 7 [] c = "8" -> 8 [] c = "9" -> 9

\* int() of a run of decimal digits.
RECURSIVE DecVal(_)
DecVal(s) ==
    IF s = "" THEN 0
    ELSE 10 * DecVal(SubSeq(s, 1, Len(s) - 1)) + DigitVal(Ch(s, Len(s)))

\* re.search(r'(\d+)', s): the leftmost, longest run of digits, or none.
DigitRun(s) ==
    LET starts == {i \in 1..Len(s) : IsDigit(Ch(s, i))}
    IN  IF starts = {} THEN None
        ELSE LET a == CHOOSE i \in starts : \A j \in starts : i <= j
                 e == CHOOSE j \in a..Len(s) :
                        /\ \A k \in a..j : IsDigit(Ch(s, k))
                        /\ (j = Len(s) \/ ~IsDigit(Ch(s, j + 1)))
             IN  Some(SubSeq(s, a, e))

\* The quality_map of parse_quality_from_string, in the order the dict is written.
QualityTable ==
    << [key |-> "hd", value |-> 720], [key |-> "fhd", value |-> 1080],
       [key |-> "qhd", value |-> 1440], [key |-> "uhd", value |-> 2160],
       [key |-> "4k", value |-> 2160], [key |-> "sd", value |-> 480],
       [key |-> "ld", value |-> 360] >>

\* The loop over quality_map.items(): the first key contained in the
\* lower-cased string decides.
TableRank(lower_quality) ==
    LET hits == {i \in 1..Len(QualityTable) : Contains(lower_quality, QualityTable[i].key)}
    IN  IF hits = {} THEN 0
        ELSE QualityTable[CHOOSE i \in hits : \A j \in hits : i <= j].value

\* The table consulted before the digits.
parse_quality_from_string_TableFirst(quality_str) ==
    IF TableRank(Lower(quality_str)) # 0 THEN TableRank(Lower(quality_str))
    ELSE IF DigitRun(quality_str).some THEN DecVal(DigitRun(quality_str).val)
    ELSE 0

\* parse_quality_from_string(quality_str)
parse_quality_from_string(quality_str) ==
    IF DigitRun(quality_str).some THEN DecVal(DigitRun(quality_str).val)
    ELSE TableRank(Lower(quality_str))

\* A sort that is not stable: x goes before the elements of its own rank.
InsertDesc_Unstable(L, x) ==
    LET k == Cardinality({i \in 1..Len(L) :
                 parse_quality_from_string(L[i]) > parse_quality_from_string(x)})
    IN  SubSeq(L, 1, k) \o <<x>> \o SubSeq(L, k + 1, Len(L))

\* sorted(..., key=rank, reverse=True) is stable: x goes after every element
\* of the sorted list L whose rank is not below its own.
InsertDesc(L, x) ==
    LET k == Cardinality({i \in 1..Len(L) :
                 parse_quality_from_string(L[i]) >= parse_quality_from_string(x)})
    IN  SubSeq(L, 1, k) \o <<x>> \o SubSeq(L, k + 1, Len(L))

RECURSIVE sort_qualities(_)
sort_qualities(qualities) ==
    IF qualities = <<>> THEN <<>>
    ELSE InsertDesc(sort_qualities(SubSeq(qualities, 1, Len(qualities) - 1)),
                    qualities[Len(qualities)])

\* A quality map (download_links) is a dict: a sequence of [label, url] with
\* distinct labels, in insertion order.
Keys(links) == [i \in 1..Len(links) |-> links[i].label]
HasKey(links, label) == \E i \in 1..Len(links) : links[i].label = label
Lookup(links, label) == links[CHOOSE i \in 1..Len(links) : links[i].label = label].url

Picked(label, url) == [exc |-> NoExc, label |-> label, url |-> url]
Raised(e) == [exc |-> e, label |-> "", url |-> ""]

\* get_best_quality without its two guards: sorted_qualities[0] raises
\* IndexError on an empty map.
get_best_quality_Unguarded(download_links) ==
    IF download_links = <<>> THEN Raised("IndexError")
    ELSE Picked(sort_qualities(Keys(download_links))[1],
                Lookup(download_links, sort_qualities(Keys(download_links))[1]))

\* VideoInfo.get_best_quality
get_best_quality(download_links) ==
    IF download_links = <<>> THEN Raised(VideoInfoError)
    ELSE LET sorted_qualities == sort_qualities(Keys(download_links))
         IN  IF sorted_qualities = <<>> THEN Raised(VideoInfoError)
             ELSE Picked(sorted_qualities[1], Lookup(download_links, sorted_qualities[1]))

\* _select_quality without the loop that looks for a partial match.
select_quality_ExactOnly(download_links, preferred_quality) ==
    IF Truthy(preferred_quality) /\ HasKey(download_links, preferred_quality.val)
    THEN Picked(preferred_quality.val, Lookup(download_links, preferred_quality.val))
    ELSE get_best_quality(download_links)

\* DownloaderService._select_quality; preferred_quality is an Optional[str].
select_quality(download_links, preferred_quality) ==
    LET pq == preferred_quality.val
        partial == {i \in 1..Len(download_links) : Contains(download_links[i].label, pq)}
        first == CHOOSE i \in partial : \A j \in partial : i <= j
    IN  IF Truthy(preferred_quality) /\ HasKey(download_links, pq)
        THEN Picked(pq, Lookup(download_links, pq))
        ELSE IF Truthy(preferred_quality) /\ partial # {}
        THEN Picked(download_links[first].label, download_links[first].url)
        ELSE get_best_quality(download_links)

\* Labels to rank: every concatenation of at most MaxParts of these parts.
MaxParts == 2

LabelParts ==
    { "hd", "HD", "fhd", "FHD", "Fhd", "qhd", "QHD", "uhd", "UHD", "4k", "4K",
      "sd", "SD", "ld", "Ld", "mystery", "1080", "720", "p", " ", "-" }

RECURSIVE Concat(_)
Concat(parts) == IF parts = <<>> THEN "" ELSE Head(parts) \o Concat(Tail(parts))

RankLabels == {Concat(ps) : ps \in SeqsUpTo(LabelParts, MaxParts)}

RankInit ==
    /\ rk_label \in RankLabels
    /\ rk_out = [done |-> FALSE, rank |-> 0]

RankIdle ==
    /\ rk_label = ""
    /\ rk_out = [done |-> FALSE, rank |-> 0]

Rank ==
    /\ ~rk_out.done
    /\ rk_out' = [done |-> TRUE, rank |-> parse_quality_from_string(rk_label)]
    /\ UNCHANGED rk_label

\* Quality maps: at most MaxMapLen distinct labels, each with a url.
MaxMapLen == 3

MapLabels == {"1080p", "720p", "720", "HD", "FHD", "mystery"}
Urls == {"a", "b"}
Preferred == {None, Some(""), Some("720"), Some("720p"), Some("HD"), Some("p"), Some("x")}

QualityMaps ==
    {m \in SeqsUpTo([label : MapLabels, url : Urls], MaxMapLen) :
        \A i, j \in 1..Len(m) : m[i].label = m[j].label => i = j}

NoPick == [done |-> FALSE, best |-> Raised(NoExc), select |-> Raised(NoExc)]

QualInit ==
    /\ q_map \in QualityMaps
    /\ q_pref \in Preferred
    /\ q_out = NoPick

QualIdle ==
    /\ q_map = <<>>
    /\ q_pref = None
    /\ q_out = NoPick

\* best and select are applied to the map.
Select ==
    /\ ~q_out.done
    /\ q_out' = [done |-> TRUE, best |-> get_best_quality(q_map),
                 select |-> select_quality(q_map, q_pref)]
    /\ UNCHANGED <<q_map, q_pref>>

----------------------------------------------------------------------------
(* Video resolver: VideoInfoService (core/video_info.py) *)

ValueError == "ValueError"

IsWord(c) ==
    \/ IsDigit(c)
    \/ c = "_"
    \/ c \in LowerLetters
    \/ c \in UpperLetters

\* The end of the longest run of word characters of s that starts at i (i - 1
\* when there is none): \w+ followed by a non-word character.
WordRunEnd(s, i) ==
    CHOOSE j \in (i - 1)..Len(s) :
        /\ \A k \in i..j : IsWord(Ch(s, k))
        /\ (j = Len(s) \/ ~IsWord(Ch(s, j + 1)))

\* re.search(r'cda\.pl/video/(\w+)', url): group 1 of the leftmost match.
VideoPattern(url) ==
    LET lit == "cda.pl/video/"
        hits == {i \in 1..Len(url) :
                    /\ StartsWithAt(url, i, lit)
                    /\ WordRunEnd(url, i + Len(lit)) >= i + Len(lit)}
        a == CHOOSE i \in hits : \A j \in hits : i <= j
    IN  IF hits = {} THEN None
        ELSE Some(SubSeq(url, a + Len(lit), WordRunEnd(url, a + Len(lit))))

\* re.search(r'cda\.pl/(\w+)/(\w+)', url): group 2 of the leftmost match.
UserPattern(url) ==
    LET lit == "cda.pl/"
        G1End(i) == WordRunEnd(url, i + Len(lit))
        hits == {i \in 1..Len(url) :
                    /\ StartsWithAt(url, i, lit)
                    /\ G1End(i) >= i + Len(lit)
                    /\ G1End(i) + 1 <= Len(url)
                    /\ Ch(url, G1End(i) + 1) = "/"
                    /\ WordRunEnd(url, G1End(i) + 2) >= G1End(i) + 2}
        a == CHOOSE i \in hits : \A j \in hits : i <= j
    IN  IF hits = {} THEN None
        ELSE Some(SubSeq(url, G1End(a) + 2, WordRunEnd(url, G1End(a) + 2)))

\* extract_video_id_from_url with the order of the two patterns exchanged.
extract_video_id_from_url_UserFirst(url) ==
    IF UserPattern(url).some THEN [exc |-> NoExc, val |-> UserPattern(url).val]
    ELSE IF VideoPattern(url).some THEN [exc |-> NoExc, val |-> VideoPattern(url).val]
    ELSE [exc |-> VideoInfoError, val |-> ""]

\* extract_video_id_from_url: [exc, val].
extract_video_id_from_url(url) ==
    IF VideoPattern(url).some THEN [exc |-> NoExc, val |-> VideoPattern(url).val]
    ELSE IF UserPattern(url).some THEN [exc |-> NoExc, val |-> UserPattern(url).val]
    ELSE [exc |-> VideoInfoError, val |-> ""]

\* re.search(r'(\d+(?:\s*\d+)*)', text): from the first digit to the last
\* digit that only digits and white space separate from it.
ViewsMatch(text) ==
    LET starts == {i \in 1..Len(text) : IsDigit(Ch(text, i))}
        a == CHOOSE i \in starts : \A j \in starts : i <= j
        ends == {j \in a..Len(text) :
                    /\ IsDigit(Ch(text, j))
                    /\ \A k \in a..j : IsDigit(Ch(text, k)) \/ IsSpace(Ch(text, k))}
    IN  IF starts = {} THEN None
        ELSE Some(SubSeq(text, a, CHOOSE j \in ends : \A k \in ends : k <= j))

\* str.replace(" ", "")
RECURSIVE StripBlanks(_)
StripBlanks(s) ==
    IF s = "" THEN ""
    ELSE (IF Head(s) = " " THEN "" ELSE Head(s)) \o StripBlanks(Tail(s))

\* str.strip()
RECURSIVE Strip(_)
Strip(s) ==
    IF s = "" THEN ""
    ELSE IF IsSpace(Head(s)) THEN Strip(Tail(s))
    ELSE IF IsSpace(Ch(s, Len(s))) THEN Strip(SubSeq(s, 1, Len(s) - 1))
    ELSE s

AllDigits(s) == \A i \in 1..Len(s) : IsDigit(Ch(s, i))

\* The views of get_video_info: views is None, or int(...) of the match with
\* its blanks removed, which raises ValueError when white space other than a
\* blank is left between the digits. [exc, some, val].
ParseViews(views_text) ==
    LET m == IF views_text.some THEN ViewsMatch(Strip(views_text.val)) ELSE None
    IN  IF ~m.some THEN [exc |-> NoExc, some |-> FALSE, val |-> 0]
        ELSE IF AllDigits(StripBlanks(m.val))
        THEN [exc |-> NoExc, some |-> TRUE, val |-> DecVal(StripBlanks(m.val))]
        ELSE [exc |-> ValueError, some |-> FALSE, val |-> 0]

\* download_links[quality] = url on a dict kept in insertion order.
DictPut(links, label, url) ==
    IF HasKey(links, label)
    THEN [i \in 1..Len(links) |->
            IF links[i].label = label THEN [label |-> label, url |-> url] ELSE links[i]]
    ELSE Append(links, [label |-> label, url |-> url])

\* A script of the video page, as the parser sees it:
\*   mentions  'player_data' occurs in script.string
\*   json      what extract_json_from_script and json.loads make of it:
\*             "none" (no match, or an empty match), "malformed" (json.loads
\*             raises), "no_video" (an object without video.qualities),
\*             "qualities" (the table below)
\*   qualities the entries of player_data['video']['qualities'] in order, each
\*             [label, kind, url]: kind "url" (an object with a url), "nourl"
\*             (an object without), "bad" (not an object: 'url' in data raises)
\* The entries of one script are read until one raises; what was read stays.
RECURSIVE ReadQualities(_, _)
ReadQualities(links, entries) ==
    IF entries = <<>> THEN links
    ELSE IF Head(entries).kind = "bad" THEN links
    ELSE IF Head(entries).kind = "url"
    THEN ReadQualities(DictPut(links, Head(entries).label, Head(entries).url), Tail(entries))
    ELSE ReadQualities(links, Tail(entries))

\* Method 1: the loop over the script tags.
RECURSIVE ScriptLinks(_, _)
ScriptLinks(links, scripts) ==
    IF scripts = <<>> THEN links
    ELSE IF Head(scripts).mentions /\ Head(scripts).json = "qualities"
    THEN ScriptLinks(ReadQualities(links, Head(scripts).qualities), Tail(scripts))
    ELSE ScriptLinks(links, Tail(scripts))

\* Method 2, once the download page is fetched: one anchor a.quality-btn per
\* quality, [text, href]; an anchor without href is passed over.
RECURSIVE AnchorLinks(_, _)
AnchorLinks(links, anchors) ==
    IF anchors = <<>> THEN links
    ELSE IF Truthy(Head(anchors).href)
    THEN AnchorLinks(DictPut(links, Strip(Head(anchors).text), Head(anchors).href.val), Tail(anchors))
    ELSE AnchorLinks(links, Tail(anchors))

\* _extract_download_links without `if not download_links`: the download page
\* is requested whenever the button has a link.
extract_download_links_Eager(page, second) ==
    LET m1 == ScriptLinks(<<>>, page.scripts)
    IN  IF ~(page.has_button /\ Truthy(page.button)) THEN [links |-> m1, reqs |-> <<>>]
        ELSE IF second.kind # Ok THEN [links |-> m1, reqs |-> <<Get(page.button.val)>>]
        ELSE [links |-> AnchorLinks(m1, second.anchors), reqs |-> <<Get(page.button.val)>>]

\* _extract_download_links(soup): page.scripts, page.button (the href of
\* a.downloadBtn, an Optional, with page.has_button) and the answer `second`
\* = [kind, anchors] to the request for the download page. [links, reqs].
extract_download_links(page, second) ==
    LET m1 == ScriptLinks(<<>>, page.scripts)
    IN  IF m1 # <<>> THEN [links |-> m1, reqs |-> <<>>]
        ELSE IF ~(page.has_button /\ Truthy(page.button)) THEN [links |-> m1, reqs |-> <<>>]
        ELSE IF second.kind # Ok THEN [links |-> m1, reqs |-> <<Get(page.button.val)>>]
        ELSE [links |-> AnchorLinks(m1, second.anchors), reqs |-> <<Get(page.button.val)>>]

NoViews == [some |-> FALSE, val |-> 0]
NoInfo == [title |-> "", video_id |-> "", download_links |-> <<>>, views |-> NoViews]
Failed(e, reqs) == [done |-> TRUE, exc |-> e, info |-> NoInfo, reqs |-> reqs]

\* get_video_info without `if not download_links: raise VideoInfoError`.
get_video_info_Unchecked(video_url, fetch, second) ==
    LET page == fetch.page
        id == extract_video_id_from_url(video_url)
        views == ParseViews(page.views)
        dl == extract_download_links(page, second)
        reqs == <<Get(video_url)>>
    IN  IF fetch.kind # Ok THEN Failed(VideoInfoError, reqs)
        ELSE IF page.premium_info.some /\ Contains(Lower(page.premium_info.val), "zaloguj")
        THEN Failed(AuthenticationError, reqs)
        ELSE IF id.exc # NoExc THEN Failed(id.exc, reqs)
        ELSE IF views.exc # NoExc THEN Failed(views.exc, reqs)
        ELSE [done |-> TRUE, exc |-> NoExc,
              info |-> [title |-> IF page.title.some THEN Strip(page.title.val)
                                  ELSE "film_bez_tytulu",
                        video_id |-> id.val,
                        download_links |-> dl.links,
                        views |-> [some |-> views.some, val |-> views.val]],
              reqs |-> reqs \o dl.reqs]

\* get_video_info(video_url): fetch = [kind, page] answers the request for
\* the video page, second the request for the download page.
get_video_info(video_url, fetch, second) ==
    LET page == fetch.page
        id == extract_video_id_from_url(video_url)
        views == ParseViews(page.views)
        dl == extract_download_links(page, second)
        reqs == <<Get(video_url)>>
    IN  IF fetch.kind # Ok THEN Failed(VideoInfoError, reqs)
        ELSE IF page.premium_info.some /\ Contains(Lower(page.premium_info.val), "zaloguj")
        THEN Failed(AuthenticationError, reqs)
        ELSE IF id.exc # NoExc THEN Failed(id.exc, reqs)
        ELSE IF views.exc # NoExc THEN Failed(views.exc, reqs)
        ELSE IF dl.links = <<>> THEN Failed(VideoInfoError, reqs \o dl.reqs)
        ELSE [done |-> TRUE, exc |-> NoExc,
              info |-> [title |-> IF page.title.some THEN Strip(page.title.val)
                                  ELSE "film_bez_tytulu",
                        video_id |-> id.val,
                        download_links |-> dl.links,
                        views |-> [some |-> views.some, val |-> views.val]],
              reqs |-> reqs \o dl.reqs]

\* The video pages served: at most MaxScripts scripts each.
MaxScripts == 2

VideoUrls ==
    { "https://www.cda.pl/video/123ab", "https://www.cda.pl/jan/456",
      "https://www.cda.pl/video", "https://www.cda.pl/u1/v2?r=cda.pl/video/77" }

PremiumInfos == {None, Some("Zaloguj sie"), Some("Premium")}
Titles == {None, Some(" Film ")}
ViewsTexts == {None, Some("1 234 odslon"), Some("1\t234")}

Entry(l, k, u) == [label |-> l, kind |-> k, url |-> u]
PlayerScript(j, q) == [mentions |-> TRUE, json |-> j, qualities |-> q]

VideoScripts ==
    { [mentions |-> FALSE, json |-> "none", qualities |-> <<>>],
      PlayerScript("none", <<>>),
      PlayerScript("malformed", <<>>),
      PlayerScript("no_video", <<>>),
      PlayerScript("qualities", <<>>),
      PlayerScript("qualities", <<Entry("720p", "url", "a")>>),
      PlayerScript("qualities", <<Entry("HD", "nourl", "")>>),
      PlayerScript("qualities", <<Entry("x", "bad", ""), Entry("720p", "url", "a")>>),
      PlayerScript("qualities", <<Entry("1080p", "url", "b"), Entry("x", "bad", "")>>) }

Buttons ==
    { [has_button |-> FALSE, button |-> None], [has_button |-> TRUE, button |-> None],
      [has_button |-> TRUE, button |-> Some("https://www.cda.pl/video/123ab/download")] }

Anchor(t, h) == [text |-> t, href |-> h]

AnchorLists ==
    { <<>>, <<Anchor(" 720p ", Some("a"))>>, <<Anchor("HD", None)>>,
      <<Anchor("720p", Some("a")), Anchor("1080p", Some("b"))>>,
      <<Anchor("", Some("b"))>> }

\* The pages vary either in what is read before the links (over a page with
\* and a page without a script that carries links) or in the scripts and the
\* download button.
VideoPage(pi, t, v, sc, b) ==
    [premium_info |-> pi, title |-> t, views |-> v, scripts |-> sc,
     has_button |-> b.has_button, button |-> b.button]

VideoPages ==
    { VideoPage(pi, t, v, sc, [has_button |-> FALSE, button |-> None]) :
        pi \in PremiumInfos, t \in Titles, v \in ViewsTexts,
        sc \in {<<>>, <<PlayerScript("qualities", <<Entry("720p", "url", "a")>>)>>} }
    \cup
    { VideoPage(None, Some(" Film "), Some("1 234 odslon"), sc, b) :
        sc \in SeqsUpTo(VideoScripts, MaxScripts), b \in Buttons }

NoVideoPage ==
    [premium_info |-> None, title |-> None, views |-> None, scripts |-> <<>>,
     has_button |-> FALSE, button |-> None]

VideoFetches ==
    {[kind |-> k, page |-> NoVideoPage] : k \in {Transport, HttpError}}
        \cup {[kind |-> Ok, page |-> pg] : pg \in VideoPages}

NoSecond == [kind |-> Unused, anchors |-> <<>>]

Seconds ==
    {[kind |-> k, anchors |-> <<>>] : k \in {Transport, HttpError}}
        \cup {[kind |-> Ok, anchors |-> a] : a \in AnchorLists}

NoResolve == [done |-> FALSE, exc |-> NoExc, info |-> NoInfo, reqs |-> <<>>, second |-> NoSecond]

ResInit ==
    /\ r_in \in [url : VideoUrls, fetch : VideoFetches]
    /\ r_out = NoResolve

ResIdle ==
    /\ r_in = [url |-> "", fetch |-> [kind |-> Unused, page |-> NoVideoPage]]
    /\ r_out = NoResolve

\* A call of get_video_info; the answer to a request that is not issued is
\* recorded as unused.
Resolve ==
    /\ ~r_out.done
    /\ \E second \in Seconds :
        LET r == get_video_info(r_in.url, r_in.fetch, second)
        IN  r_out' = [done |-> TRUE, exc |-> r.exc, info |-> r.info, reqs |-> r.reqs,
                      second |-> IF Len(r.reqs) >= 2 THEN second ELSE NoSecond]
    /\ UNCHANGED r_in

----------------------------------------------------------------------------
(* Command handler: CLIHandler.handle_command (cli/cli_handler.py) under    *)
(* main (main.py), and the script szybkie_pobieranie.py                     *)

\* The commands of the parser and the content operation each starts with:
\* 'pobierz' and 'info' resolve a video (get_video_info), 'szukaj' lists a
\* search, 'folder' and 'pobierz-folder' list a folder.
Commands == {"pobierz", "szukaj", "folder", "pobierz-folder", "info"}

FirstOp(command) ==
    CASE command = "pobierz" -> "resolve"
      [] command = "info" -> "resolve"
      [] command = "szukaj" -> "search"
      [] command = "folder" -> "folder"
      [] command = "pobierz-folder" -> "folder"

\* What a command may go on to after an operation: the transfer follows the
\* resolution (DownloaderService.download), an item is resolved after a
\* listing (_handle_search_selection, _download_all_from_results), the next
\* item or page follows a transfer.
NextOps(command, op) ==
    CASE op = "resolve" -> {"download"}
      [] op = "search" -> {"resolve"}
      [] op = "folder" -> {"resolve"} \cup (IF command = "pobierz-folder" THEN {"folder"} ELSE {})
      [] op = "download" ->
            IF command \in {"pobierz", "info"} THEN {}
            ELSE {"resolve"} \cup (IF command = "pobierz-folder" THEN {"folder"} ELSE {})

\* The operations one run of a command starts are cut at MaxOps.
MaxOps == 3

\* A process exit code that does not keep the kinds of ending apart.
ExitCode_Generic(how) == IF how = "return" THEN 0 ELSE 1

\* The exit code of the process by how the command ended: `return 0`; the
\* except clauses for CDADownloaderException and KeyboardInterrupt; the
\* refused login (sys.exit(1) in _login, `return 1` in the script); any
\* other exception (main's `except Exception: return 1`, and the status of
\* an uncaught exception in the script).
ExitCode(how) ==
    CASE how = "return" -> 0
      [] how = "CDADownloaderException" -> 1
      [] how = "KeyboardInterrupt" -> 130
      [] how = "login refused" -> 1
      [] how = "Exception" -> 1

\* The test of the finally clause: handle_command asks for both, the script
\* for logged_in alone.
LogsOut(args, li) ==
    IF args.entry = "szybkie_pobieranie" THEN li ELSE ~args.no_login /\ li

\* The run is that of a command of main.py, or of szybkie_pobieranie.py,
\* which always logs in and downloads one video.
CliInit ==
    /\ cli_pc = "try"
    /\ cli_args \in [entry : {"main"}, no_login : BOOLEAN, command : Commands]
                        \cup [entry : {"szybkie_pobieranie"}, no_login : {FALSE},
                              command : {"pobierz"}]
    /\ cli_ops = <<>>
    /\ cli_exit = -1
    /\ cli_end = ""

CliIdle ==
    /\ cli_pc = "idle"
    /\ cli_args = [entry |-> "main", no_login |-> FALSE, command |-> "info"]
    /\ cli_ops = <<>>
    /\ cli_exit = -1
    /\ cli_end = ""

\* if not args.no_login: self._login(). A login that returns False ends in
\* sys.exit(1), one that raises in `return 1`; both pass through finally.
CliLogin ==
    /\ cli_pc = "try"
    /\ ~cli_args.no_login
    /\ \E u \in Users, p \in Passwords, f \in Fetches, r \in Responses :
        /\ Login(u, p, f, r)
        /\ IF last'.exc = NoExc /\ last'.ret
           THEN cli_pc' = "dispatch" /\ UNCHANGED <<cli_exit, cli_end>>
           ELSE /\ cli_pc' = "finally"
                /\ cli_end' = IF last'.exc = NoExc THEN "login refused"
                              ELSE "CDADownloaderException"
                /\ cli_exit' = ExitCode(cli_end')
    /\ UNCHANGED <<cli_args, cli_ops>>

CliSkipLogin ==
    /\ cli_pc = "try"
    /\ cli_args.no_login
    /\ cli_pc' = "dispatch"
    /\ UNCHANGED <<cli_args, cli_ops, cli_exit, cli_end, authVars>>

\* The command's handler is called and starts its first content operation.
CliDispatch ==
    /\ cli_pc = "dispatch"
    /\ cli_ops' = Append(cli_ops, [op |-> FirstOp(cli_args.command), authed |-> logged_in])
    /\ cli_pc' = "running"
    /\ UNCHANGED <<cli_args, cli_exit, cli_end, authVars>>

\* The handler goes on to a further content operation.
CliContinue ==
    /\ cli_pc = "running"
    /\ Len(cli_ops) < MaxOps
    /\ \E op \in NextOps(cli_args.command, cli_ops[Len(cli_ops)].op) :
        cli_ops' = Append(cli_ops, [op |-> op, authed |-> logged_in])
    /\ UNCHANGED <<cli_pc, cli_args, cli_exit, cli_end, authVars>>

\* return 0
CliReturn ==
    /\ cli_pc = "running"
    /\ cli_pc' = "finally"
    /\ cli_end' = "return"
    /\ cli_exit' = ExitCode("return")
    /\ UNCHANGED <<cli_args, cli_ops, authVars>>

\* except CDADownloaderException: return 1
CliRaise ==
    /\ cli_pc = "running"
    /\ cli_pc' = "finally"
    /\ cli_end' = "CDADownloaderException"
    /\ cli_exit' = ExitCode("CDADownloaderException")
    /\ UNCHANGED <<cli_args, cli_ops, authVars>>

\* An exception that is neither: no except clause of the command catches
\* it, the finally clause runs, and the process ends on it.
CliUnexpected ==
    /\ cli_pc = "running"
    /\ cli_pc' = "finally"
    /\ cli_end' = "Exception"
    /\ cli_exit' = ExitCode("Exception")
    /\ UNCHANGED <<cli_args, cli_ops, authVars>>

\* except KeyboardInterrupt: return 130, at a prompt of _login or in a command.
CliInterrupt ==
    /\ \/ cli_pc = "running"
       \/ cli_pc = "try" /\ ~cli_args.no_login
    /\ cli_pc' = "finally"
    /\ cli_end' = "KeyboardInterrupt"
    /\ cli_exit' = ExitCode("KeyboardInterrupt")
    /\ UNCHANGED <<cli_args, cli_ops, authVars>>

\* finally: if not args.no_login and self.auth_service.logged_in: logout()
CliFinally ==
    /\ cli_pc = "finally"
    /\ IF LogsOut(cli_args, logged_in)
       THEN \E r \in LogoutResponses : Logout(r)
       ELSE UNCHANGED authVars
    /\ cli_pc' = "exit"
    /\ UNCHANGED <<cli_args, cli_ops, cli_exit, cli_end>>

----------------------------------------------------------------------------
(* Listing parser: SearchService._parse_search_results (core/search.py) *)

SearchError == "SearchError"

\* config.base_url
base_url == "https://www.cda.pl"

\* What select_one gives inside an item container: None, or the first
\* matching element, of which the text and the href attribute are read.
Elem(text, href) == [some |-> TRUE, text |-> text, href |-> href]
NoElem == [some |-> FALSE, text |-> "", href |-> None]

\* One item container (div.video-clip-wrapper, div.video-clip or
\* div.video-cover): what each selector finds in it, whether it carries a
\* premium label, and whether reading it raises inside the try block.
Container(lt, st, h3, th, ln, prem, raises) ==
    [link_title |-> lt, span_title |-> st, h3 |-> h3, thumbnail |-> th, link |-> ln,
     premium |-> prem, raises |-> raises]

\* a or b or c on the results of select_one, preferring the last found.
FirstFound_Last(a, b, c) == IF c.some THEN c ELSE IF b.some THEN b ELSE a

\* a or b or c on the results of select_one: a Tag is truthy whatever it
\* holds, None is falsy.
FirstFound(a, b, c) == IF a.some THEN a ELSE IF b.some THEN b ELSE c

\* url.startswith('http')
StartsWithHttp(s) == StartsWithAt(s, 1, "http")

\* if url and not url.startswith('http'): url = f"{config.base_url}{url}"
FullUrl(url) ==
    IF Truthy(url) /\ ~StartsWithHttp(url.val) THEN Some(base_url \o url.val) ELSE url

\* The body of the loop for one container, given its title_element and
\* url_element: the records it appends.
ParseFound(element, title_element, url_element) ==
    IF element.raises THEN <<>>
    ELSE IF title_element.some /\ url_element.some
    THEN << [title |-> Strip(title_element.text), url |-> FullUrl(url_element.href),
             premium |-> element.premium] >>
    ELSE <<>>

ParseElement(element) ==
    ParseFound(element,
               FirstFound(element.link_title, element.span_title, element.h3),
               FirstFound(element.link_title, element.thumbnail, element.link))

\* The loop over video_elements.
RECURSIVE ParseElements(_)
ParseElements(video_elements) ==
    IF video_elements = <<>> THEN <<>>
    ELSE ParseElement(Head(video_elements)) \o ParseElements(Tail(video_elements))

\* _parse_search_results without the check for the login wall.
parse_search_results_NoWall(page) ==
    [exc |-> NoExc, results |-> ParseElements(page.containers)]

\* _parse_search_results(html_content), the page being [login_required,
\* containers]: [exc, results].
parse_search_results(page) ==
    IF page.login_required THEN [exc |-> AuthenticationError, results |-> <<>>]
    ELSE [exc |-> NoExc, results |-> ParseElements(page.containers)]

\* The pages the parser is given: every page of one container over all the
\* ways the selectors can find elements, and every sequence of at most
\* MaxItems containers of a smaller set; each with and without the login wall.
MaxItems == 2

LinkTitles ==
    { NoElem, Elem(" Film A ", Some("/video/1a")), Elem("", None),
      Elem("Film A", Some("https://www.cda.pl/video/1a")) }
SpanTitles == { NoElem, Elem("Film B", None) }
H3s == { NoElem, Elem("Film C", None) }
Thumbnails == { NoElem, Elem("", Some("/video/2b")), Elem("", None), Elem("", Some("")) }
PlainLinks == { NoElem, Elem("zobacz", Some("video/3c")) }

AllContainers ==
    { Container(lt, st, h3, th, ln, FALSE, FALSE) :
        lt \in LinkTitles, st \in SpanTitles, h3 \in H3s, th \in Thumbnails, ln \in PlainLinks }

SomeContainers ==
    { Container(Elem(" Film A ", Some("/video/1a")), NoElem, NoElem, NoElem, NoElem, TRUE, FALSE),
      Container(NoElem, Elem("Film B", None), NoElem, Elem("", Some("/video/2b")), NoElem, FALSE, FALSE),
      Container(NoElem, Elem("Film B", None), NoElem, NoElem, NoElem, FALSE, FALSE),
      Container(Elem("Film A", None), NoElem, NoElem, NoElem, NoElem, FALSE, FALSE),
      Container(Elem(" Film A ", Some("/video/1a")), NoElem, NoElem, NoElem, NoElem, FALSE, TRUE) }

ListingPages ==
    { [login_required |-> w, containers |-> cs] :
        w \in BOOLEAN,
        cs \in {<<c>> : c \in AllContainers} \cup SeqsUpTo(SomeContainers, MaxItems) }

NoListing == [done |-> FALSE, exc |-> NoExc, results |-> <<>>]

ListInit ==
    /\ l_page \in ListingPages
    /\ l_out = NoListing

ListIdle ==
    /\ l_page = [login_required |-> FALSE, containers |-> <<>>]
    /\ l_out = NoListing

\* The outcome res of the parser is recorded.
Parsed(res) == l_out' = [done |-> TRUE, exc |-> res.exc, results |-> res.results]

\* The parser is applied to the page.
ParseListing ==
    /\ ~l_out.done
    /\ Parsed(parse_search_results(l_page))
    /\ UNCHANGED l_page

----------------------------------------------------------------------------
(* Downloader: DownloaderService.download and _download_file               *)
(* (core/downloader.py)                                                    *)

FileError == "FileError"

\* int(response.headers.get('content-length', 0)), the header being an
\* Optional[str]: [exc, val].
ContentLength(header) ==
    IF ~header.some THEN [exc |-> NoExc, val |-> 0]
    ELSE IF header.val # "" /\ AllDigits(header.val)
    THEN [exc |-> NoExc, val |-> DecVal(header.val)]
    ELSE [exc |-> ValueError, val |-> 0]

\* The destination file: whether it is on disk, whether the handle of this
\* transfer is open, and the bytes it holds.
NoFile == [exists |-> FALSE, open |-> FALSE, size |-> 0]

\* open(filepath, 'wb')
Opened == [exists |-> TRUE, open |-> TRUE, size |-> 0]

\* The with block left without closing the file.
WithExit_Leak(f) == f

\* Leaving the with block, by its end or by an exception: the file is closed.
WithExit(f) == [f EXCEPT !.open = FALSE]

\* The callback called with the size of the chunk instead of the running sum.
Report_Size(downloaded, size, total_size) == [downloaded |-> size, total |-> total_size]

\* progress_callback(downloaded, total_size)
Report(downloaded, size, total_size) == [downloaded |-> downloaded, total |-> total_size]

\* download's `except Exception as e: raise DownloadError(...)`: what the
\* caller gets when `cause` was raised inside the try block.
Wrapped(cause) == IF cause = NoExc THEN NoExc ELSE DownloadError

\* What the downloader is given: the video page served, the preferred
\* quality, whether a progress callback is passed, and the answer to the
\* request for the file: the status, the content-length header and the chunks
\* iter_content yields (their sizes), at most MaxChunks of them.
MaxChunks == 3

ChunkSizes == {0, 400, 600}
ContentLengths == {None, Some("1000"), Some("1000 B")}
DlPreferred == {None, Some("720")}
DlUrl == "https://www.cda.pl/video/123ab"

DlPage(sc) ==
    VideoPage(None, Some(" Film "), None, sc, [has_button |-> FALSE, button |-> None])

DlLinks ==
    [kind |-> Ok,
     page |-> DlPage(<<PlayerScript("qualities",
                          <<Entry("720p", "url", "a"), Entry("1080p", "url", "b")>>)>>)]

DlNoLinks ==
    { [kind |-> Transport, page |-> NoVideoPage], [kind |-> Ok, page |-> DlPage(<<>>)] }

NoSource == [kind |-> Unused, content_length |-> None, chunks |-> <<>>]

Sources ==
    {[kind |-> k, content_length |-> None, chunks |-> <<>>] : k \in {Transport, HttpError}}
        \cup {[kind |-> Ok, content_length |-> cl, chunks |-> ch] :
                cl \in ContentLengths, ch \in SeqsUpTo(ChunkSizes, MaxChunks)}

DlInputs ==
    {[url |-> DlUrl, fetch |-> f, preferred |-> None, callback |-> TRUE, source |-> NoSource] :
        f \in DlNoLinks}
        \cup {[url |-> DlUrl, fetch |-> DlLinks, preferred |-> pq, callback |-> cb, source |-> src] :
                pq \in DlPreferred, cb \in BOOLEAN, src \in Sources}

NoLocals == [quality |-> "", url |-> "", i |-> 0, downloaded |-> 0, total_size |-> 0]
NoDownload == [inner |-> NoExc, cause |-> NoExc, exc |-> NoExc]

DlInit ==
    /\ d_in \in DlInputs
    /\ d_pc = "start"
    /\ d_loc = NoLocals
    /\ d_file = NoFile
    /\ d_calls = <<>>
    /\ d_out = NoDownload

DlIdle ==
    /\ d_in = [url |-> "", fetch |-> [kind |-> Unused, page |-> NoVideoPage],
               preferred |-> None, callback |-> FALSE, source |-> NoSource]
    /\ d_pc = "idle"
    /\ d_loc = NoLocals
    /\ d_file = NoFile
    /\ d_calls = <<>>
    /\ d_out = NoDownload

\* An exception raised before _download_file is called ends download.
DlFails(e) ==
    /\ d_out' = [inner |-> NoExc, cause |-> e, exc |-> Wrapped(e)]
    /\ d_pc' = "done"
    /\ UNCHANGED d_loc

\* quality, download_url = self._select_quality(video_info, preferred_quality)
DlSelected(sel) ==
    IF sel.exc # NoExc THEN DlFails(sel.exc)
    ELSE /\ d_loc' = [d_loc EXCEPT !.quality = sel.label, !.url = sel.url]
         /\ d_pc' = "request"
         /\ UNCHANGED d_out

\* video_info = self.video_info_service.get_video_info(video_url)
DlResolved(r) ==
    IF r.exc # NoExc THEN DlFails(r.exc)
    ELSE DlSelected(select_quality(r.info.download_links, d_in.preferred))

\* download, up to the call of _download_file.
DlResolve ==
    /\ d_pc = "start"
    /\ DlResolved(get_video_info(d_in.url, d_in.fetch, NoSecond))
    /\ UNCHANGED <<d_in, d_file, d_calls>>

\* An exception leaves _download_file: e is what its caller sees.
DlUnwind(e) ==
    /\ d_out' = [d_out EXCEPT !.inner = e]
    /\ d_pc' = "unwound"

\* total_size = int(response.headers.get('content-length', 0))
DlSized(cl) ==
    IF cl.exc # NoExc THEN DlUnwind(cl.exc) /\ UNCHANGED d_loc
    ELSE /\ d_loc' = [d_loc EXCEPT !.total_size = cl.val]
         /\ d_pc' = "open"
         /\ UNCHANGED d_out

\* response = self.session.get(url, stream=True); response.raise_for_status()
DlRequest ==
    /\ d_pc = "request"
    /\ IF d_in.source.kind # Ok THEN DlUnwind(DownloadError) /\ UNCHANGED d_loc
       ELSE DlSized(ContentLength(d_in.source.content_length))
    /\ UNCHANGED <<d_in, d_file, d_calls>>

\* with open(filepath, 'wb') as f: downloaded = 0
DlOpen ==
    /\ d_pc = "open"
    /\ d_file' = Opened
    /\ d_loc' = [d_loc EXCEPT !.downloaded = 0]
    /\ d_pc' = "stream"
    /\ UNCHANGED <<d_in, d_calls, d_out>>

\* open raises IOError: except IOError -> FileError
DlOpenFails ==
    /\ d_pc = "open"
    /\ DlUnwind(FileError)
    /\ UNCHANGED <<d_in, d_loc, d_file, d_calls>>

\* One turn of the loop with the chunk of `size` bytes: an empty chunk is
\* passed over; another is written, counted and reported.
DlWritten(size) ==
    /\ d_file' = [d_file EXCEPT !.size = @ + size]
    /\ d_loc' = [d_loc EXCEPT !.i = @ + 1, !.downloaded = @ + size]
    /\ d_calls' = IF size > 0 /\ d_in.callback
                  THEN Append(d_calls, Report(d_loc.downloaded + size, size, d_loc.total_size))
                  ELSE d_calls

DlWrite ==
    /\ d_pc = "stream"
    /\ d_loc.i < Len(d_in.source.chunks)
    /\ DlWritten(d_in.source.chunks[d_loc.i + 1])
    /\ UNCHANGED <<d_in, d_pc, d_out>>

\* f.write raises IOError on a chunk that is not empty.
DlWriteFails ==
    /\ d_pc = "stream"
    /\ d_loc.i < Len(d_in.source.chunks)
    /\ d_in.source.chunks[d_loc.i + 1] > 0
    /\ d_file' = WithExit(d_file)
    /\ DlUnwind(FileError)
    /\ UNCHANGED <<d_in, d_loc, d_calls>>

\* iter_content raises a RequestException in mid-stream.
DlStreamBreaks ==
    /\ d_pc = "stream"
    /\ d_file' = WithExit(d_file)
    /\ DlUnwind(DownloadError)
    /\ UNCHANGED <<d_in, d_loc, d_calls>>

\* iter_content is exhausted: the with block ends and _download_file returns.
DlStreamEnds ==
    /\ d_pc = "stream"
    /\ d_loc.i = Len(d_in.source.chunks)
    /\ d_file' = WithExit(d_file)
    /\ d_pc' = "returned"
    /\ UNCHANGED <<d_in, d_loc, d_calls, d_out>>

\* download after _download_file: return filepath, or the except clause.
DlFinish ==
    /\ d_pc \in {"unwound", "returned"}
    /\ d_out' = [d_out EXCEPT !.cause = d_out.inner, !.exc = Wrapped(d_out.inner)]
    /\ d_pc' = "done"
    /\ UNCHANGED <<d_in, d_loc, d_file, d_calls>>

----------------------------------------------------------------------------
(* Folder crawl: CLIHandler._download_folder and                            *)
(* _download_all_from_results (cli/cli_handler.py),                         *)
(* InteractiveRunner.download_folder_impl (runner.py), over                 *)
(* SearchService.search_in_folder (core/search.py)                          *)

\* search_in_folder(folder_id, page), the server answering the request for
\* the page with fetch = [kind, page]: [exc, results].
search_in_folder(fetch) ==
    IF fetch.kind # Ok THEN [exc |-> SearchError, results |-> <<>>]
    ELSE parse_search_results(fetch.page)

\* The classes derived from CDADownloaderException.
CDADownloaderException ==
    {AuthenticationError, TokenError, VideoInfoError, DownloadError, SearchError, FileError}

\* An except clause around search_in_folder that catches nothing.
CatchesFetch_Nothing(impl, e) == FALSE

\* The except clause around search_in_folder: SearchError in the command
\* handler, CDADownloaderException in the runner.
CatchesFetch(impl, e) ==
    IF impl = "handler" THEN e = SearchError ELSE e \in CDADownloaderException

\* An except clause around download that lets DownloadError through.
CatchesItem_FileOnly(impl, e) == e = FileError

\* The except clause around download: (VideoInfoError, DownloadError,
\* FileError) in the command handler, CDADownloaderException in the runner.
CatchesItem(impl, e) ==
    IF impl = "handler" THEN e \in {VideoInfoError, DownloadError, FileError}
    ELSE e \in CDADownloaderException

\* [r for r in results if r.premium]
RECURSIVE PremiumOnly(_)
PremiumOnly(results) ==
    IF results = <<>> THEN <<>>
    ELSE IF Head(results).premium THEN <<Head(results)>> \o PremiumOnly(Tail(results))
    ELSE PremiumOnly(Tail(results))

\* The premium filter that does not count what it drops.
Filtered_Uncounted(results, premium_only) ==
    IF premium_only
    THEN [results |-> PremiumOnly(results), skipped_count |-> 0]
    ELSE [results |-> results, skipped_count |-> 0]

\* if premium_only: the records kept and the number dropped.
Filtered(results, premium_only) ==
    IF premium_only
    THEN [results |-> PremiumOnly(results),
          skipped_count |-> Len(results) - Len(PremiumOnly(results))]
    ELSE [results |-> results, skipped_count |-> 0]

\* `if end_page and current_page > end_page`, end_page an Optional[int].
PastEnd(end_page, current_page) ==
    end_page.some /\ end_page.val # 0 /\ current_page > end_page.val

\* The folder has records on its first MaxPage pages at most.
MaxPage == 3

CrawlA ==
    Container(Elem(" Film A ", Some("/video/1a")), NoElem, NoElem, NoElem, NoElem, TRUE, FALSE)
CrawlB ==
    Container(NoElem, Elem("Film B", None), NoElem, Elem("", Some("/video/2b")), NoElem,
              FALSE, FALSE)

CrawlListings == { <<>>, <<CrawlA>>, <<CrawlB>>, <<CrawlB, CrawlA>>, <<CrawlA, CrawlB, CrawlA>> }

NoListingPage == [login_required |-> FALSE, containers |-> <<>>]

LastAnswers ==
    { [kind |-> Transport, page |-> NoListingPage], [kind |-> Ok, page |-> NoListingPage] }

CrawlAnswers ==
    LastAnswers
        \cup { [kind |-> Ok, page |-> [login_required |-> TRUE, containers |-> <<CrawlA>>]] }
        \cup { [kind |-> Ok, page |-> [login_required |-> FALSE, containers |-> cs]] :
                 cs \in CrawlListings }

\* What the server can answer to the request for page n of the folder.
Answers(n) == IF n > MaxPage THEN LastAnswers ELSE CrawlAnswers

\* What can be raised under download's try block for one item.
ItemCauses == {NoExc, VideoInfoError, AuthenticationError, DownloadError, FileError}

CrawlInputs ==
    [impl : {"handler", "runner"}, start_page : 1..MaxPage,
     end_page : {None} \cup {Some(n) : n \in 1..MaxPage}, premium_only : BOOLEAN]

NoPageLocals == [results |-> <<>>, i |-> 0, downloaded |-> 0, skipped |-> 0, fetched |-> "none"]
NoCrawl == [done |-> FALSE, exc |-> NoExc, downloaded |-> 0, skipped |-> 0]
\* What the crawl was seen to do: the pages fetched; the attempts of the page
\* under way; the records the pages gave; what the last call of
\* search_in_folder raised; the items downloaded, the items that failed and
\* the records the filter dropped; and the fetches, attempts and sleeps in the
\* order they happened.
NoHistory ==
    [fetched |-> <<>>, attempts |-> <<>>, seen |-> 0, fetch_exc |-> NoExc,
     ok |-> 0, failed |-> 0, dropped |-> 0, log |-> <<>>]

CrawlInit ==
    /\ c_in \in CrawlInputs
    /\ c_pc = "fetch"
    /\ c_page = c_in.start_page
    /\ c_loc = NoPageLocals
    /\ c_tot = [downloaded |-> 0, skipped |-> 0]
    /\ c_hist = NoHistory
    /\ c_out = NoCrawl

CrawlIdle ==
    /\ c_in = [impl |-> "handler", start_page |-> 1, end_page |-> None, premium_only |-> FALSE]
    /\ c_pc = "idle"
    /\ c_page = 1
    /\ c_loc = NoPageLocals
    /\ c_tot = [downloaded |-> 0, skipped |-> 0]
    /\ c_hist = NoHistory
    /\ c_out = NoCrawl

\* An exception that no except clause of the crawl catches leaves it.
CrawlRaises(e) ==
    /\ c_pc' = "raised"
    /\ c_out' = [c_out EXCEPT !.done = TRUE, !.exc = e]

\* The page gave records: they are filtered, what the filter drops is added
\* to total_skipped, and the loop over the records kept starts.
CrawlDispatch(f) ==
    /\ c_loc' = [results |-> f.results, i |-> 0, downloaded |-> 0, skipped |-> 0,
                 fetched |-> "records"]
    /\ c_tot' = [c_tot EXCEPT !.skipped = @ + f.skipped_count]
    /\ c_pc' = "items"
    /\ UNCHANGED c_out

\* The body of `while True` with `if not results` after the premium filter.
CrawlFetched_FilterFirst(r) ==
    /\ c_hist' = [c_hist EXCEPT
                    !.fetched = Append(@, c_page),
                    !.attempts = <<>>,
                    !.seen = IF r.exc = NoExc THEN @ + Len(r.results) ELSE @,
                    !.fetch_exc = r.exc,
                    !.dropped = IF r.exc = NoExc /\ c_in.premium_only
                                THEN @ + Len(SelectSeq(r.results, LAMBDA x : ~x.premium))
                                ELSE @,
                    !.log = Append(@, "fetch")]
    /\ IF r.exc # NoExc /\ ~CatchesFetch(c_in.impl, r.exc)
       THEN CrawlRaises(r.exc) /\ c_loc' = [NoPageLocals EXCEPT !.fetched = "error"]
                               /\ UNCHANGED c_tot
       ELSE IF r.exc # NoExc
       THEN c_pc' = "end" /\ c_loc' = [NoPageLocals EXCEPT !.fetched = "error"]
                          /\ UNCHANGED <<c_tot, c_out>>
       ELSE IF Filtered(r.results, c_in.premium_only).results = <<>>
       THEN /\ c_pc' = "end" /\ c_loc' = [NoPageLocals EXCEPT !.fetched = "empty"]
            /\ c_tot' = [c_tot EXCEPT
                            !.skipped = @ + Filtered(r.results, c_in.premium_only).skipped_count]
            /\ UNCHANGED c_out
       ELSE CrawlDispatch(Filtered(r.results, c_in.premium_only))

\* The body of `while True` up to the loop over the records, r being the
\* outcome of search_in_folder for current_page.
CrawlFetched(r) ==
    /\ c_hist' = [c_hist EXCEPT
                    !.fetched = Append(@, c_page),
                    !.attempts = <<>>,
                    !.seen = IF r.exc = NoExc THEN @ + Len(r.results) ELSE @,
                    !.fetch_exc = r.exc,
                    !.dropped = IF r.exc = NoExc /\ c_in.premium_only
                                THEN @ + Len(SelectSeq(r.results, LAMBDA x : ~x.premium))
                                ELSE @,
                    !.log = Append(@, "fetch")]
    /\ IF r.exc # NoExc /\ ~CatchesFetch(c_in.impl, r.exc)
       THEN CrawlRaises(r.exc) /\ c_loc' = [NoPageLocals EXCEPT !.fetched = "error"]
                               /\ UNCHANGED c_tot
       ELSE IF r.exc # NoExc
       THEN c_pc' = "end" /\ c_loc' = [NoPageLocals EXCEPT !.fetched = "error"]
                          /\ UNCHANGED <<c_tot, c_out>>
       ELSE IF r.results = <<>>
       THEN c_pc' = "end" /\ c_loc' = [NoPageLocals EXCEPT !.fetched = "empty"]
                          /\ UNCHANGED <<c_tot, c_out>>
       ELSE CrawlDispatch(Filtered(r.results, c_in.premium_only))

CrawlFetch ==
    /\ c_pc = "fetch"
    /\ \E answer \in Answers(c_page) : CrawlFetched(search_in_folder(answer))
    /\ UNCHANGED <<c_in, c_page>>

\* A sleep after every item, the last included.
ItemPause_Always(i, n) == <<"sleep(1)">>

\* `if i < len(results): time.sleep(1)`, at the end of the turn for item i of
\* n: the sleeps it makes.
ItemPause(i, n) == IF i < n THEN <<"sleep(1)">> ELSE <<>>

\* `time.sleep(2)` at the end of the body of `while True`, which the break
\* past end_page skips: the sleeps it makes.
PagePause(past_end) == IF past_end THEN <<>> ELSE <<"sleep(2)">>

\* One turn of the loop over the records: under download's try block `cause`
\* was raised and download(result.url, quality) raised `raised` ("none" when
\* it returned). The command handler counts in the locals of
\* _download_all_from_results, the runner in the totals. The turn ends with
\* the pause before the next item, unless the exception leaves the loop.
CrawlAttempted(cause, raised) ==
    /\ c_hist' = [c_hist EXCEPT
                    !.attempts =
                        Append(@, [index |-> c_loc.i + 1, url |-> c_loc.results[c_loc.i + 1].url,
                                   cause |-> cause, raised |-> raised]),
                    !.ok = IF raised = NoExc THEN @ + 1 ELSE @,
                    !.failed = IF raised # NoExc /\ CatchesItem(c_in.impl, raised)
                               THEN @ + 1 ELSE @,
                    !.log = IF raised = NoExc \/ CatchesItem(c_in.impl, raised)
                            THEN Append(@, "item") \o ItemPause(c_loc.i + 1, Len(c_loc.results))
                            ELSE Append(@, "item")]
    /\ IF raised = NoExc
       THEN /\ c_loc' = [c_loc EXCEPT !.i = @ + 1,
                            !.downloaded = IF c_in.impl = "handler" THEN @ + 1 ELSE @]
            /\ c_tot' = [c_tot EXCEPT
                            !.downloaded = IF c_in.impl = "runner" THEN @ + 1 ELSE @]
            /\ UNCHANGED <<c_pc, c_out>>
       ELSE IF CatchesItem(c_in.impl, raised)
       THEN /\ c_loc' = [c_loc EXCEPT !.i = @ + 1,
                            !.skipped = IF c_in.impl = "handler" THEN @ + 1 ELSE @]
            /\ c_tot' = [c_tot EXCEPT
                            !.skipped = IF c_in.impl = "runner" THEN @ + 1 ELSE @]
            /\ UNCHANGED <<c_pc, c_out>>
       ELSE CrawlRaises(raised) /\ UNCHANGED <<c_loc, c_tot>>

CrawlAttempt ==
    /\ c_pc = "items"
    /\ c_loc.i < Len(c_loc.results)
    /\ \E cause \in ItemCauses : CrawlAttempted(cause, Wrapped(cause))
    /\ UNCHANGED <<c_in, c_page>>

\* The records of the page are done: the counts of the page are added to the
\* totals, current_page += 1, and the crawl ends when that is past end_page;
\* when it is not, the crawl sleeps before the next page.
CrawlPageDone ==
    /\ c_pc = "items"
    /\ c_loc.i = Len(c_loc.results)
    /\ c_tot' = [downloaded |-> c_tot.downloaded + c_loc.downloaded,
                 skipped |-> c_tot.skipped + c_loc.skipped]
    /\ c_loc' = [c_loc EXCEPT !.downloaded = 0, !.skipped = 0]
    /\ c_page' = c_page + 1
    /\ c_pc' = IF PastEnd(c_in.end_page, c_page + 1) THEN "end" ELSE "fetch"
    /\ c_hist' = [c_hist EXCEPT !.log = @ \o PagePause(PastEnd(c_in.end_page, c_page + 1))]
    /\ UNCHANGED <<c_in, c_out>>

\* After the loop: the totals are printed and the crawl returns.
CrawlEnd ==
    /\ c_pc = "end"
    /\ c_out' = [done |-> TRUE, exc |-> NoExc, downloaded |-> c_tot.downloaded,
                 skipped |-> c_tot.skipped]
    /\ c_pc' = "done"
    /\ UNCHANGED <<c_in, c_page, c_loc, c_tot, c_hist>>

\* The crawl over any page numbers the command line or the prompt gives
\* (type=int, int(input)), 0 included; a page number below 2 asks for the
\* first page of the folder. Here the folder may have records on every page:
\* the crawl is followed up to page MaxPage, and a crawl that asks for a page
\* past it is one that goes on.
PageInputs ==
    [impl : {"handler", "runner"}, start_page : 0..MaxPage,
     end_page : {None} \cup {Some(n) : n \in 0..MaxPage}, premium_only : BOOLEAN]

PageAnswers ==
    LastAnswers
        \cup { [kind |-> Ok, page |-> [login_required |-> TRUE, containers |-> <<CrawlA>>]],
               [kind |-> Ok, page |-> [login_required |-> FALSE, containers |-> <<CrawlB>>]] }

PagesInit ==
    /\ c_in \in PageInputs
    /\ c_pc = "fetch"
    /\ c_page = c_in.start_page
    /\ c_loc = NoPageLocals
    /\ c_tot = [downloaded |-> 0, skipped |-> 0]
    /\ c_hist = NoHistory
    /\ c_out = NoCrawl

PagesFetch ==
    /\ c_pc = "fetch"
    /\ c_page <= MaxPage
    /\ \E answer \in PageAnswers : CrawlFetched(search_in_folder(answer))
    /\ UNCHANGED <<c_in, c_page>>

PagesAttempt ==
    /\ c_pc = "items"
    /\ c_loc.i < Len(c_loc.results)
    /\ \E cause \in {NoExc, VideoInfoError} : CrawlAttempted(cause, Wrapped(cause))
    /\ UNCHANGED <<c_in, c_page>>

\* The two crawls side by side: what _download_folder and
\* download_folder_impl do from the first page to their end on a folder whose
\* pages and items answer the same way to both.

\* The pages served, at most MaxServed before the folder is at its end; each
\* with what is raised under download's try block for its items in turn.
MaxServed == 2

ServedPages ==
    [fetch : { [kind |-> Transport, page |-> NoListingPage],
               [kind |-> Ok, page |-> NoListingPage],
               [kind |-> Ok, page |-> [login_required |-> TRUE, containers |-> <<CrawlA>>]],
               [kind |-> Ok, page |-> [login_required |-> FALSE, containers |-> <<CrawlA>>]],
               [kind |-> Ok, page |-> [login_required |-> FALSE, containers |-> <<CrawlB, CrawlA>>]] },
     causes : { <<>>, <<VideoInfoError>>, <<NoExc, FileError>> }]

\* A page past the pages served has no records.
ServedAt(pages, k) ==
    IF k <= Len(pages) THEN pages[k]
    ELSE [fetch |-> [kind |-> Ok, page |-> NoListingPage], causes |-> <<>>]

\* What is raised under download's try block for item i: nothing unless the
\* page says otherwise.
CauseAt(causes, i) == IF i <= Len(causes) THEN causes[i] ELSE NoExc

NoObs == [fetched |-> <<>>, attempts |-> <<>>, downloaded |-> 0, skipped |-> 0, exc |-> NoExc]

\* The loop over the records kept of a page from item i on, obs being what
\* the crawl has done so far.
RECURSIVE ItemsFrom(_, _, _, _, _)
ItemsFrom(impl, results, causes, i, obs) ==
    IF i > Len(results) THEN obs
    ELSE IF Wrapped(CauseAt(causes, i)) = NoExc
    THEN ItemsFrom(impl, results, causes, i + 1,
                   [obs EXCEPT !.attempts = Append(@, results[i].url), !.downloaded = @ + 1])
    ELSE IF CatchesItem(impl, Wrapped(CauseAt(causes, i)))
    THEN ItemsFrom(impl, results, causes, i + 1,
                   [obs EXCEPT !.attempts = Append(@, results[i].url), !.skipped = @ + 1])
    ELSE [obs EXCEPT !.attempts = Append(@, results[i].url),
                     !.exc = Wrapped(CauseAt(causes, i))]

RECURSIVE PagesFrom(_, _, _, _, _)

\* The end of the body of `while True`: current_page += 1 and the test of
\* end_page.
AfterItems(impl, in, k, page, obs) ==
    IF obs.exc # NoExc THEN obs
    ELSE IF PastEnd(in.end_page, page + 1) THEN obs
    ELSE PagesFrom(impl, in, k + 1, page + 1, obs)

\* The body of `while True` for current_page = page, r being the outcome of
\* search_in_folder and causes what the items of the page raise.
PageTurn(impl, in, k, page, obs, r, causes) ==
    IF r.exc # NoExc /\ ~CatchesFetch(impl, r.exc)
    THEN [obs EXCEPT !.fetched = Append(@, page), !.exc = r.exc]
    ELSE IF r.exc # NoExc \/ r.results = <<>>
    THEN [obs EXCEPT !.fetched = Append(@, page)]
    ELSE AfterItems(impl, in, k, page,
            ItemsFrom(impl, Filtered(r.results, in.premium_only).results, causes, 1,
                      [obs EXCEPT !.fetched = Append(@, page),
                                  !.skipped = @ + Filtered(r.results, in.premium_only).skipped_count]))

\* `while True` from current_page = page, the k-th page served.
PagesFrom(impl, in, k, page, obs) ==
    PageTurn(impl, in, k, page, obs, search_in_folder(ServedAt(in.pages, k).fetch),
             ServedAt(in.pages, k).causes)

\* _download_folder (impl = "handler") and download_folder_impl (impl =
\* "runner") on the arguments and the folder of `in`.
CrawlRun(impl, in) == PagesFrom(impl, in, 1, in.start_page, NoObs)

EquivInputs ==
    [start_page : 1..MaxPage, end_page : {None} \cup {Some(n) : n \in 1..MaxPage},
     premium_only : BOOLEAN, pages : SeqsUpTo(ServedPages, MaxServed)]

NoCompare == [done |-> FALSE, handler |-> NoObs, runner |-> NoObs]

EquivInit ==
    /\ eq_in \in EquivInputs
    /\ eq_out = NoCompare

EquivIdle ==
    /\ eq_in = [start_page |-> 1, end_page |-> None, premium_only |-> FALSE, pages |-> <<>>]
    /\ eq_out = NoCompare

\* Both implementations crawl the folder.
Compare ==
    /\ ~eq_out.done
    /\ eq_out' = [done |-> TRUE, handler |-> CrawlRun("handler", eq_in),
                  runner |-> CrawlRun("runner", eq_in)]
    /\ UNCHANGED eq_in

----------------------------------------------------------------------------
(* File names: sanitize_filename and create_video_filename                  *)
(* (utils/helpers.py)                                                       *)

\* The class [\\/*?:"<>|] of sanitize_filename.
IsForbidden(c) == c \in {"\\", "/", "*", "?", ":", "\"", "<", ">", "|"}

\* re.sub(r'[\\/*?:"<>|]', "", title), on the characters a..b of s.
RECURSIVE RemoveForbiddenIn(_, _, _)
RemoveForbiddenIn(s, a, b) ==
    IF a > b THEN ""
    ELSE IF a = b THEN (IF IsForbidden(Ch(s, a)) THEN "" ELSE Ch(s, a))
    ELSE RemoveForbiddenIn(s, a, (a + b) \div 2) \o RemoveForbiddenIn(s, (a + b) \div 2 + 1, b)

RemoveForbidden(s) == RemoveForbiddenIn(s, 1, Len(s))

\* re.sub(r'\s+', "_", s), on the characters a..b of s: every maximal run of
\* whitespace gives one "_", written where the run ends.
RECURSIVE CollapseSpacesIn(_, _, _)
CollapseSpacesIn(s, a, b) ==
    IF a > b THEN ""
    ELSE IF a = b
    THEN (IF ~IsSpace(Ch(s, a)) THEN Ch(s, a)
          ELSE IF a < Len(s) /\ IsSpace(Ch(s, a + 1)) THEN "" ELSE "_")
    ELSE CollapseSpacesIn(s, a, (a + b) \div 2) \o CollapseSpacesIn(s, (a + b) \div 2 + 1, b)

CollapseSpaces(s) == CollapseSpacesIn(s, 1, Len(s))

\* The length sanitize_filename cuts the name to.
NameLimit == 80

\* safe_title[:80]
Cut(s) == IF Len(s) > NameLimit THEN SubSeq(s, 1, NameLimit) ELSE s

\* sanitize_filename that does not cut the name.
sanitize_filename_Uncut(title) == CollapseSpaces(RemoveForbidden(title))

\* sanitize_filename(title)
sanitize_filename(title) == Cut(CollapseSpaces(RemoveForbidden(title)))

\* create_video_filename(title, quality), the extension being "mp4".
create_video_filename(title, quality) == sanitize_filename(title) \o "_" \o quality \o ".mp4"

\* Titles to sanitize: every concatenation of at most MaxTitleParts of these
\* parts, of which one is 40 characters long.
MaxTitleParts == 3

TitleParts ==
    { "Film", " ", " \t\n", ":", "a/b", "\"?*<>|\\", "_", "x",
      "abcdefghijklmnopqrstuvwxyzabcdefghijklm " }

FileTitles == {Concat(ps) : ps \in SeqsUpTo(TitleParts, MaxTitleParts)}

NameInit ==
    /\ nm_title \in FileTitles
    /\ nm_out = [done |-> FALSE, name |-> ""]

NameIdle ==
    /\ nm_title = ""
    /\ nm_out = [done |-> FALSE, name |-> ""]

\* sanitize_filename is applied to the title.
Sanitize ==
    /\ ~nm_out.done
    /\ nm_out' = [done |-> TRUE, name |-> sanitize_filename(nm_title)]
    /\ UNCHANGED nm_title

----------------------------------------------------------------------------
(* Batch download: CLIHandler._download_all_from_results                     *)
(* (cli/cli_handler.py) and InteractiveRunner.download_all_from_results      *)
(* (runner.py), over DownloaderService.download                              *)

KeyboardInterrupt == "KeyboardInterrupt"

\* An exception that is no CDADownloaderException.
OtherException == "Exception"

\* config.download_folder, the download_dir of a new DownloaderService.
download_folder == "pobrane_filmy"

\* `if download_dir:` before the loop, download_dir an Optional[Path] and dir
\* the downloader's download_dir: the directory saved and the one in force.
Swapped(download_dir, dir) ==
    IF download_dir.some THEN [original |-> Some(dir), dir |-> download_dir.val]
    ELSE [original |-> None, dir |-> dir]

\* The finally clause: the command handler tests download_dir, the runner
\* original_download_dir; the downloader's download_dir after it.
Restored(impl, download_dir, original, dir) ==
    IF impl = "handler" THEN (IF download_dir.some THEN original.val ELSE dir)
    ELSE IF original.some THEN original.val ELSE dir

\* filepath = self.download_dir / filename
FilePath(dir, title, quality) == dir \o "/" \o create_video_filename(title, quality)

\* open(filepath, 'wb') by the download of item i: the file at the path is
\* made or emptied, and is whole when the download returns.
Written(files, path, i, whole) ==
    {f \in files : f.path # path} \cup {[path |-> path, item |-> i, whole |-> whole]}

\* The items of a batch, as download resolves them: the title on the video
\* page and the quality selected; at most MaxBatch of them.
MaxBatch == 2

BatchItems ==
    { [title |-> "Film: A", quality |-> "720p"], [title |-> "Film A", quality |-> "720p"],
      [title |-> "Film B", quality |-> "720p"] }

BatchInputs ==
    [impl : {"handler", "runner"}, results : SeqsUpTo(BatchItems, MaxBatch),
     download_dir : {None, Some("kino")}]

NoBatchLocals == [original |-> None, i |-> 0, downloaded |-> 0, skipped |-> 0, done |-> <<>>]
NoBatch == [exc |-> NoExc, downloaded |-> 0, skipped |-> 0]

BatchInit ==
    /\ bt_in \in BatchInputs
    /\ bt_pc = "start"
    /\ bt_dir = download_folder
    /\ bt_loc = NoBatchLocals
    /\ bt_files = {}
    /\ bt_out = NoBatch

BatchIdle ==
    /\ bt_in = [impl |-> "handler", results |-> <<>>, download_dir |-> None]
    /\ bt_pc = "idle"
    /\ bt_dir = download_folder
    /\ bt_loc = NoBatchLocals
    /\ bt_files = {}
    /\ bt_out = NoBatch

\* if not results: return; otherwise the directory is swapped when one is
\* given, and the counters are set.
BatchEnter ==
    /\ bt_pc = "start"
    /\ IF bt_in.results = <<>>
       THEN bt_pc' = "done" /\ UNCHANGED <<bt_dir, bt_loc>>
       ELSE /\ bt_pc' = "setup"
            /\ bt_dir' = Swapped(bt_in.download_dir, bt_dir).dir
            /\ bt_loc' = [bt_loc EXCEPT !.original = Swapped(bt_in.download_dir, bt_dir).original]
    /\ UNCHANGED <<bt_in, bt_files, bt_out>>

\* The progress bar is made (command handler) or the heading printed
\* (runner), and the try statement is entered.
BatchSetup ==
    /\ bt_pc = "setup"
    /\ bt_pc' = "loop"
    /\ UNCHANGED <<bt_in, bt_dir, bt_loc, bt_files, bt_out>>

\* An interrupt or an exception while the progress bar is made or the heading
\* printed: the try statement was not entered, so no finally clause runs.
BatchSetupFails ==
    /\ bt_pc = "setup"
    /\ \E e \in {KeyboardInterrupt, OtherException} : bt_out' = [bt_out EXCEPT !.exc = e]
    /\ bt_pc' = "raised"
    /\ UNCHANGED <<bt_in, bt_dir, bt_loc, bt_files>>

\* One turn of the loop: under download's try block `cause` was raised, the
\* file having been opened or not, and download raised `raised`.
BatchAttempted(item, cause, opened, raised) ==
    /\ bt_files' = IF opened
                   THEN Written(bt_files, FilePath(bt_dir, item.title, item.quality),
                                bt_loc.i + 1, cause = NoExc)
                   ELSE bt_files
    /\ IF raised = NoExc
       THEN /\ bt_loc' = [bt_loc EXCEPT !.i = @ + 1, !.downloaded = @ + 1,
                                        !.done = Append(@, bt_loc.i + 1)]
            /\ UNCHANGED <<bt_pc, bt_dir, bt_out>>
       ELSE IF CatchesItem(bt_in.impl, raised)
       THEN /\ bt_loc' = [bt_loc EXCEPT !.i = @ + 1, !.skipped = @ + 1]
            /\ UNCHANGED <<bt_pc, bt_dir, bt_out>>
       ELSE /\ bt_dir' = Restored(bt_in.impl, bt_in.download_dir, bt_loc.original, bt_dir)
            /\ bt_out' = [bt_out EXCEPT !.exc = raised]
            /\ bt_pc' = "raised"
            /\ UNCHANGED bt_loc

BatchAttempt ==
    /\ bt_pc = "loop"
    /\ bt_loc.i < Len(bt_in.results)
    /\ \E cause \in ItemCauses, opened \in BOOLEAN :
        /\ cause = NoExc => opened
        /\ cause \in {VideoInfoError, AuthenticationError} => ~opened
        /\ BatchAttempted(bt_in.results[bt_loc.i + 1], cause, opened, Wrapped(cause))
    /\ UNCHANGED bt_in

\* An interrupt, or an exception that is no CDADownloaderException, inside
\* the try statement: the finally clause runs and the exception goes on.
BatchEscapes ==
    /\ bt_pc = "loop"
    /\ \E e \in {KeyboardInterrupt, OtherException} : bt_out' = [bt_out EXCEPT !.exc = e]
    /\ bt_dir' = Restored(bt_in.impl, bt_in.download_dir, bt_loc.original, bt_dir)
    /\ bt_pc' = "raised"
    /\ UNCHANGED <<bt_in, bt_loc, bt_files>>

\* The loop ends: the finally clause runs and the counts are returned.
BatchReturn ==
    /\ bt_pc = "loop"
    /\ bt_loc.i = Len(bt_in.results)
    /\ bt_dir' = Restored(bt_in.impl, bt_in.download_dir, bt_loc.original, bt_dir)
    /\ bt_out' = [exc |-> NoExc, downloaded |-> bt_loc.downloaded, skipped |-> bt_loc.skipped]
    /\ bt_pc' = "done"
    /\ UNCHANGED <<bt_in, bt_loc, bt_files>>

----------------------------------------------------------------------------
(* Interactive menu: InteractiveRunner.download_video, browse_folder,        *)
(* download_folder and show_video_info (runner.py)                           *)

\* Path(download_dir) when the answer to the prompt is not empty.
Entered(answer) == IF answer = "" THEN None ELSE Some(answer)

\* `if download_dir: self.downloader_service.download_dir = Path(download_dir)`
\* of download_video and download_folder, dir being the directory in force.
Assigned(answer, dir) == IF answer # "" THEN answer ELSE dir

\* What the user enters at the prompt for the directory; "" is no change.
DirAnswers == {"", "kino", "seriale"}

\* The menu operations of one session are cut at MaxMenuOps.
MaxMenuOps == 3

MenuInit ==
    /\ mn_dir = download_folder
    /\ mn_log = <<>>

MenuIdle ==
    /\ mn_dir = download_folder
    /\ mn_log = <<>>

\* The operation op, given `answer` for the directory, has returned to the
\* menu with the downloader's download_dir at `after`.
MenuDone(op, answer, after) ==
    /\ Len(mn_log) < MaxMenuOps
    /\ mn_dir' = after
    /\ mn_log' = Append(mn_log, [op |-> op, answer |-> answer, before |-> mn_dir, after |-> after])

\* download_video: the directory entered is assigned before download is called.
MenuDownloadVideo == \E answer \in DirAnswers : MenuDone("download_video", answer, Assigned(answer, mn_dir))

\* download_folder: the directory entered is assigned before
\* download_folder_impl is called.
MenuDownloadFolder ==
    \E answer \in DirAnswers : MenuDone("download_folder", answer, Assigned(answer, mn_dir))

\* browse_folder: the directory entered is passed to download_all_from_results.
MenuBrowseFolder ==
    \E answer \in DirAnswers :
        MenuDone("browse_folder", answer,
                 Restored("runner", Entered(answer), Swapped(Entered(answer), mn_dir).original,
                          Swapped(Entered(answer), mn_dir).dir))

\* show_video_info: no directory is asked for.
MenuShowVideoInfo == MenuDone("show_video_info", "", mn_dir)

----------------------------------------------------------------------------
(* Interactive session: InteractiveRunner.run, login and logout (runner.py) *)
(* on the AuthService of the runner                                          *)

\* The menu operations of one session are cut at MaxRunOps.
MaxRunOps == 3

\* Where a KeyboardInterrupt reaches an operation of the menu: not at all,
\* before the service has assigned anything (at a prompt or during a
\* request), between the two assignments of the service, after them and
\* before the runner's own assignment, or after that (at the closing prompt).
InterruptPoints == {"none", "call", "assigned", "returned", "end"}

\* The fields of the service when a call that, left alone, ends as r on the
\* state st is interrupted at `at`: logged_in is assigned before username.
ServiceAt(st, r, at) ==
    CASE at = "call" -> st
      [] at = "assigned" -> [logged_in |-> r.logged_in, username |-> st.username]
      [] OTHER -> [logged_in |-> r.logged_in, username |-> r.username]

\* The runner's logged_in after `if self.auth_service.<call>(): self.logged_in
\* = value` inside `try ... except CDADownloaderException`.
FlagAfter(flag, r, at, value) ==
    IF r.ret /\ r.exc = NoExc /\ at \in {"none", "end"} THEN value ELSE flag

\* What the user enters at the prompts of login.
RunUsers == {"bob", ""}
RunPasswords == {"pw"}

\* What the server answers to the runner's requests.
RunFetches ==
    { [kind |-> Transport, page |-> <<>>],
      [kind |-> Ok, page |-> <<>>],
      [kind |-> Ok, page |-> <<Meta("csrf-token", Some("abc123"))>>] }

RunResponses ==
    { [kind |-> Transport, text |-> ""],
      [kind |-> Ok, text |-> "Zaloguj"],
      [kind |-> Ok, text |-> "premium bob"] }

NoCredentials == [login |-> "", password |-> ""]

\* InteractiveRunner.__init__
RunInit ==
    /\ rn_logged_in = FALSE
    /\ rn_cred = NoCredentials
    /\ rn_pc = "menu"
    /\ rn_log = <<>>

RunIdle ==
    /\ rn_logged_in = FALSE
    /\ rn_cred = NoCredentials
    /\ rn_pc = "idle"
    /\ rn_log = <<>>

\* `if(not(self.login_CDA and self.password_CDA))`: the credentials are asked
\* for unless both are kept from an earlier login.
Credentials(kept, user, password) ==
    IF kept.login # "" /\ kept.password # "" THEN kept
    ELSE [login |-> user, password |-> password]

\* The operation op has returned to the menu (or was left by an interrupt
\* that the menu loop catches) with the service's fields at post and the
\* runner's flag at flag; o = [ret, exc, reqs, resp] is what the service's
\* call returned or raised, the requests it issued and the answer to the last.
RunDone(op, at, o, post, flag) ==
    /\ rn_logged_in' = flag
    /\ rn_log' = Append(rn_log,
            [op |-> op, at |-> at, pre |-> AuthState, flag_pre |-> rn_logged_in,
             post |-> post, flag |-> flag,
             ret |-> o.ret, exc |-> o.exc, reqs |-> o.reqs, resp |-> o.resp])

\* A call interrupted before the service has assigned anything.
Interrupted(st) ==
    [logged_in |-> st.logged_in, username |-> st.username, ret |-> FALSE,
     exc |-> KeyboardInterrupt, reqs |-> <<>>, data |-> NoData]

\* The two assignments of a call that ends as r on the state st are reached.
Assigns(st, r) == r.ret /\ r.exc = NoExc /\ r.reqs # <<>>

\* The service's call op, which left alone ends as r, is made and
\* interrupted at `at`: the fields change, the call is recorded and the
\* runner's operation ends with the flag at `flag`.
ServiceCalled(op, user, password, fetch, post, r, at, flag) ==
    /\ at \in {"assigned", "returned"} => Assigns(AuthState, r)
    /\ IF at = "call"
       THEN /\ Called(op, user, password, NoPage, NoResp, Interrupted(AuthState))
            /\ RunDone(op, at, [ret |-> FALSE, exc |-> KeyboardInterrupt, reqs |-> <<>>,
                                resp |-> Unused],
                       AuthState, rn_logged_in)
       ELSE /\ Called(op, user, password, fetch, post,
                      [r EXCEPT !.logged_in = ServiceAt(AuthState, r, at).logged_in,
                                !.username = ServiceAt(AuthState, r, at).username,
                                !.exc = IF at = "end" THEN r.exc ELSE
                                        IF at = "none" THEN r.exc ELSE KeyboardInterrupt])
            /\ RunDone(op, at, [ret |-> r.ret, exc |-> r.exc, reqs |-> r.reqs,
                                resp |-> IF r.reqs = <<>> THEN Unused
                                         ELSE IF op = "login" /\ Len(r.reqs) < 2 THEN fetch.kind
                                         ELSE post.kind],
                       ServiceAt(AuthState, r, at), flag)

\* Option 1 of the menu of an anonymous runner: InteractiveRunner.login.
RunLogin ==
    /\ rn_pc = "menu"
    /\ Len(rn_log) < MaxRunOps
    /\ ~rn_logged_in
    /\ \E user \in RunUsers, password \in RunPasswords, fetch \in RunFetches,
          post \in RunResponses, at \in InterruptPoints :
        LET cred == Credentials(rn_cred, user, password)
            r == login(AuthState, cred.login, cred.password, fetch, post)
        IN  /\ rn_cred' = cred
            /\ ServiceCalled("login", cred.login, cred.password, fetch, post, r, at,
                             FlagAfter(rn_logged_in, r, at, TRUE))
    /\ UNCHANGED rn_pc

\* Option 6 of the menu of a runner that is logged in: InteractiveRunner.logout.
RunLogout ==
    /\ rn_pc = "menu"
    /\ Len(rn_log) < MaxRunOps
    /\ rn_logged_in
    /\ \E resp \in LogoutResponses, at \in InterruptPoints :
        LET r == logout(AuthState, resp)
        IN  ServiceCalled("logout", "", "", NoPage, resp, r, at,
                          FlagAfter(rn_logged_in, r, at, FALSE))
    /\ UNCHANGED <<rn_cred, rn_pc>>

\* Any other choice: an operation on videos or folders (options 1 to 5 of a
\* runner that is logged in) or a choice the menu does not offer. It ends
\* normally, with an error it reports, or with an interrupt the loop catches;
\* none of them touches the service or the runner's flag.
RunOther ==
    /\ rn_pc = "menu"
    /\ Len(rn_log) < MaxRunOps
    /\ \E how \in {"none", "call"}, exc \in {NoExc, DownloadError} :
        /\ (how = "call" => exc = NoExc)
        /\ RunDone("other", how,
                   [ret |-> exc = NoExc /\ how = "none",
                    exc |-> IF how = "call" THEN KeyboardInterrupt ELSE exc,
                    reqs |-> <<>>, resp |-> Unused],
                   AuthState, rn_logged_in)
    /\ UNCHANGED <<authVars, rn_cred, rn_pc>>

\* The loop is left: by option 0, by an exception that is not a
\* CDADownloaderException out of an operation, or by an interrupt outside
\* the inner try statement. The finally clause logs out when the runner's
\* flag is set.
RunLeave ==
    /\ rn_pc = "menu"
    /\ \E how \in {"exit", OtherException, KeyboardInterrupt}, resp \in LogoutResponses :
        /\ (how = OtherException => rn_logged_in)
        /\ IF rn_logged_in
           THEN /\ Logout(resp)
                /\ rn_log' = Append(rn_log,
                       [op |-> "leave", at |-> how, pre |-> AuthState, flag_pre |-> rn_logged_in,
                        post |-> [logged_in |-> logout(AuthState, resp).logged_in,
                                  username |-> logout(AuthState, resp).username],
                        flag |-> rn_logged_in,
                        ret |-> logout(AuthState, resp).ret, exc |-> NoExc,
                        reqs |-> logout(AuthState, resp).reqs, resp |-> resp.kind])
           ELSE /\ UNCHANGED authVars
                /\ rn_log' = Append(rn_log,
                       [op |-> "leave", at |-> how, pre |-> AuthState, flag_pre |-> rn_logged_in,
                        post |-> AuthState, flag |-> rn_logged_in,
                        ret |-> TRUE, exc |-> NoExc, reqs |-> <<>>, resp |-> Unused])
    /\ rn_pc' = "exited"
    /\ UNCHANGED <<rn_logged_in, rn_cred>>

----------------------------------------------------------------------------
(* File of a download: the path DownloaderService.download builds from the  *)
(* resolver's title and quality label (core/downloader.py)                   *)

\* The labels a video page carries: keys of the qualities table of
\* player_data, texts of the anchors of the download page.
PageLabels == {"720p", "1080p", "HD/720", "../../x", "4k:hdr", "480p"}

PageTitles == {None, Some(" Film "), Some("a/b: c"), Some("..")}

FileDirs == {download_folder, "kino"}

\* Pages with the links in a script, and pages with a download button whose
\* download page has the links.
FilePages ==
    { VideoPage(None, t, None, <<PlayerScript("qualities", e)>>,
                [has_button |-> FALSE, button |-> None]) :
        t \in PageTitles,
        e \in {<<Entry(l, "url", "u1")>> : l \in PageLabels}
                \cup {<<Entry(l, "url", "u1"), Entry(k, "url", "u2")>> : l, k \in PageLabels} }
    \cup
    { VideoPage(None, t, None, <<>>,
                [has_button |-> TRUE,
                 button |-> Some("https://www.cda.pl/video/123ab/download")]) :
        t \in PageTitles }

FileSeconds ==
    {[kind |-> Ok, anchors |-> <<Anchor(" " \o l \o " ", Some("u1"))>>] : l \in PageLabels}

NoPath == [done |-> FALSE, exc |-> NoExc, title |-> "", label |-> "", name |-> "", path |-> ""]

FileInit ==
    /\ fn_in \in [page : FilePages, preferred : DlPreferred, dir : FileDirs]
    /\ fn_out = NoPath

FileIdle ==
    /\ fn_in = [page |-> NoVideoPage, preferred |-> None, dir |-> ""]
    /\ fn_out = NoPath

\* download up to `filepath = self.download_dir / filename`: info is the
\* outcome of get_video_info, picked that of _select_quality.
FileBuilt(dir, info, picked) ==
    IF info.exc # NoExc THEN [NoPath EXCEPT !.done = TRUE, !.exc = DownloadError]
    ELSE IF picked.exc # NoExc THEN [NoPath EXCEPT !.done = TRUE, !.exc = DownloadError]
    ELSE [done |-> TRUE, exc |-> NoExc, title |-> info.info.title, label |-> picked.label,
          name |-> create_video_filename(info.info.title, picked.label),
          path |-> FilePath(dir, info.info.title, picked.label)]

\* A call of download reaches the point where the file is opened.
FileBuild ==
    /\ ~fn_out.done
    /\ \E second \in FileSeconds :
        LET info == get_video_info(DlUrl, [kind |-> Ok, page |-> fn_in.page], second)
        IN  fn_out' = FileBuilt(fn_in.dir, info,
                                select_quality(info.info.download_links, fn_in.preferred))
    /\ UNCHANGED fn_in

----------------------------------------------------------------------------
(* Specifications *)

\* The authenticator under any sequence of calls.
InitAuth == AuthInit /\ TokIdle /\ RankIdle /\ QualIdle /\ ResIdle /\ ListIdle /\ DlIdle /\ CrawlIdle /\ CliIdle /\ NameIdle /\ BatchIdle /\ MenuIdle /\ RunIdle /\ FileIdle /\ EquivIdle
NextAuth ==
    \/ AuthLogin /\ UNCHANGED <<tokVars, rankVars, qualVars, resVars, listVars, dlVars, crawlVars, cliVars, nameVars, batchVars, menuVars, runVars, fileVars, equivVars>>
    \/ AuthLogout /\ UNCHANGED <<tokVars, rankVars, qualVars, resVars, listVars, dlVars, crawlVars, cliVars, nameVars, batchVars, menuVars, runVars, fileVars, equivVars>>
    \/ EnsureLoggedIn /\ UNCHANGED <<tokVars, rankVars, qualVars, resVars, listVars, dlVars, crawlVars, cliVars, nameVars, batchVars, menuVars, runVars, fileVars, equivVars>>
SpecAuth == InitAuth /\ [][NextAuth]_vars

\* The token resolver on every page.
InitToken == AuthInit /\ TokInit /\ RankIdle /\ QualIdle /\ ResIdle /\ ListIdle /\ DlIdle /\ CrawlIdle /\ CliIdle /\ NameIdle /\ BatchIdle /\ MenuIdle /\ RunIdle /\ FileIdle /\ EquivIdle
NextToken == TokResolve /\ UNCHANGED <<authVars, rankVars, qualVars, resVars, listVars, dlVars, crawlVars, cliVars, nameVars, batchVars, menuVars, runVars, fileVars, equivVars>>
SpecToken == InitToken /\ [][NextToken]_vars

\* rank on every label.
InitRank == AuthInit /\ TokIdle /\ RankInit /\ QualIdle /\ ResIdle /\ ListIdle /\ DlIdle /\ CrawlIdle /\ CliIdle /\ NameIdle /\ BatchIdle /\ MenuIdle /\ RunIdle /\ FileIdle /\ EquivIdle
NextRank == Rank /\ UNCHANGED <<authVars, tokVars, qualVars, resVars, listVars, dlVars, crawlVars, cliVars, nameVars, batchVars, menuVars, runVars, fileVars, equivVars>>
SpecRank == InitRank /\ [][NextRank]_vars

\* best and select on every quality map.
InitQual == AuthInit /\ TokIdle /\ RankIdle /\ QualInit /\ ResIdle /\ ListIdle /\ DlIdle /\ CrawlIdle /\ CliIdle /\ NameIdle /\ BatchIdle /\ MenuIdle /\ RunIdle /\ FileIdle /\ EquivIdle
NextQual == Select /\ UNCHANGED <<authVars, tokVars, rankVars, resVars, listVars, dlVars, crawlVars, cliVars, nameVars, batchVars, menuVars, runVars, fileVars, equivVars>>
SpecQual == InitQual /\ [][NextQual]_vars

\* get_video_info on every video page.
InitRes == AuthInit /\ TokIdle /\ RankIdle /\ QualIdle /\ ResInit /\ ListIdle /\ DlIdle /\ CrawlIdle /\ CliIdle /\ NameIdle /\ BatchIdle /\ MenuIdle /\ RunIdle /\ FileIdle /\ EquivIdle
NextRes == Resolve /\ UNCHANGED <<authVars, tokVars, rankVars, qualVars, listVars, dlVars, crawlVars, cliVars, nameVars, batchVars, menuVars, runVars, fileVars, equivVars>>
SpecRes == InitRes /\ [][NextRes]_vars

\* One run of handle_command.
InitCli == AuthInit /\ TokIdle /\ RankIdle /\ QualIdle /\ ResIdle /\ ListIdle /\ DlIdle /\ CrawlIdle /\ CliInit /\ NameIdle /\ BatchIdle /\ MenuIdle /\ RunIdle /\ FileIdle /\ EquivIdle
NextCli ==
    \/ CliLogin /\ UNCHANGED <<tokVars, rankVars, qualVars, resVars, listVars, dlVars, crawlVars, nameVars, batchVars, menuVars, runVars, fileVars, equivVars>>
    \/ CliSkipLogin /\ UNCHANGED <<tokVars, rankVars, qualVars, resVars, listVars, dlVars, crawlVars, nameVars, batchVars, menuVars, runVars, fileVars, equivVars>>
    \/ CliDispatch /\ UNCHANGED <<tokVars, rankVars, qualVars, resVars, listVars, dlVars, crawlVars, nameVars, batchVars, menuVars, runVars, fileVars, equivVars>>
    \/ CliContinue /\ UNCHANGED <<tokVars, rankVars, qualVars, resVars, listVars, dlVars, crawlVars, nameVars, batchVars, menuVars, runVars, fileVars, equivVars>>
    \/ CliReturn /\ UNCHANGED <<tokVars, rankVars, qualVars, resVars, listVars, dlVars, crawlVars, nameVars, batchVars, menuVars, runVars, fileVars, equivVars>>
    \/ CliRaise /\ UNCHANGED <<tokVars, rankVars, qualVars, resVars, listVars, dlVars, crawlVars, nameVars, batchVars, menuVars, runVars, fileVars, equivVars>>
    \/ CliUnexpected /\ UNCHANGED <<tokVars, rankVars, qualVars, resVars, listVars, dlVars, crawlVars, nameVars, batchVars, menuVars, runVars, fileVars, equivVars>>
    \/ CliInterrupt /\ UNCHANGED <<tokVars, rankVars, qualVars, resVars, listVars, dlVars, crawlVars, nameVars, batchVars, menuVars, runVars, fileVars, equivVars>>
    \/ CliFinally /\ UNCHANGED <<tokVars, rankVars, qualVars, resVars, listVars, dlVars, crawlVars, nameVars, batchVars, menuVars, runVars, fileVars, equivVars>>
SpecCli == InitCli /\ [][NextCli]_vars

\* The listing parser on every page.
InitList == AuthInit /\ TokIdle /\ RankIdle /\ QualIdle /\ ResIdle /\ ListInit /\ DlIdle /\ CrawlIdle /\ CliIdle /\ NameIdle /\ BatchIdle /\ MenuIdle /\ RunIdle /\ FileIdle /\ EquivIdle
NextList == ParseListing /\ UNCHANGED <<authVars, tokVars, rankVars, qualVars, resVars, dlVars, crawlVars, cliVars, nameVars, batchVars, menuVars, runVars, fileVars, equivVars>>
SpecList == InitList /\ [][NextList]_vars

\* One call of download.
InitDl == AuthInit /\ TokIdle /\ RankIdle /\ QualIdle /\ ResIdle /\ ListIdle /\ DlInit /\ CrawlIdle /\ CliIdle /\ NameIdle /\ BatchIdle /\ MenuIdle /\ RunIdle /\ FileIdle /\ EquivIdle
NextDl ==
    \/ DlResolve /\ UNCHANGED <<authVars, tokVars, rankVars, qualVars, resVars, listVars, crawlVars, cliVars, nameVars, batchVars, menuVars, runVars, fileVars, equivVars>>
    \/ DlRequest /\ UNCHANGED <<authVars, tokVars, rankVars, qualVars, resVars, listVars, crawlVars, cliVars, nameVars, batchVars, menuVars, runVars, fileVars, equivVars>>
    \/ DlOpen /\ UNCHANGED <<authVars, tokVars, rankVars, qualVars, resVars, listVars, crawlVars, cliVars, nameVars, batchVars, menuVars, runVars, fileVars, equivVars>>
    \/ DlOpenFails /\ UNCHANGED <<authVars, tokVars, rankVars, qualVars, resVars, listVars, crawlVars, cliVars, nameVars, batchVars, menuVars, runVars, fileVars, equivVars>>
    \/ DlWrite /\ UNCHANGED <<authVars, tokVars, rankVars, qualVars, resVars, listVars, crawlVars, cliVars, nameVars, batchVars, menuVars, runVars, fileVars, equivVars>>
    \/ DlWriteFails /\ UNCHANGED <<authVars, tokVars, rankVars, qualVars, resVars, listVars, crawlVars, cliVars, nameVars, batchVars, menuVars, runVars, fileVars, equivVars>>
    \/ DlStreamBreaks /\ UNCHANGED <<authVars, tokVars, rankVars, qualVars, resVars, listVars, crawlVars, cliVars, nameVars, batchVars, menuVars, runVars, fileVars, equivVars>>
    \/ DlStreamEnds /\ UNCHANGED <<authVars, tokVars, rankVars, qualVars, resVars, listVars, crawlVars, cliVars, nameVars, batchVars, menuVars, runVars, fileVars, equivVars>>
    \/ DlFinish /\ UNCHANGED <<authVars, tokVars, rankVars, qualVars, resVars, listVars, crawlVars, cliVars, nameVars, batchVars, menuVars, runVars, fileVars, equivVars>>
SpecDl == InitDl /\ [][NextDl]_vars

\* One crawl of a folder.
InitCrawl ==
    AuthInit /\ TokIdle /\ RankIdle /\ QualIdle /\ ResIdle /\ ListIdle /\ DlIdle /\ CrawlInit /\ CliIdle /\ NameIdle /\ BatchIdle /\ MenuIdle /\ RunIdle /\ FileIdle /\ EquivIdle
NextCrawl ==
    \/ CrawlFetch /\ UNCHANGED <<authVars, tokVars, rankVars, qualVars, resVars, listVars, dlVars, cliVars, nameVars, batchVars, menuVars, runVars, fileVars, equivVars>>
    \/ CrawlAttempt /\ UNCHANGED <<authVars, tokVars, rankVars, qualVars, resVars, listVars, dlVars, cliVars, nameVars, batchVars, menuVars, runVars, fileVars, equivVars>>
    \/ CrawlPageDone /\ UNCHANGED <<authVars, tokVars, rankVars, qualVars, resVars, listVars, dlVars, cliVars, nameVars, batchVars, menuVars, runVars, fileVars, equivVars>>
    \/ CrawlEnd /\ UNCHANGED <<authVars, tokVars, rankVars, qualVars, resVars, listVars, dlVars, cliVars, nameVars, batchVars, menuVars, runVars, fileVars, equivVars>>
SpecCrawl == InitCrawl /\ [][NextCrawl]_vars

\* sanitize_filename on every title.
InitName == AuthInit /\ TokIdle /\ RankIdle /\ QualIdle /\ ResIdle /\ ListIdle /\ DlIdle /\ CrawlIdle /\ CliIdle /\ NameInit /\ BatchIdle /\ MenuIdle /\ RunIdle /\ FileIdle /\ EquivIdle
NextName == Sanitize /\ UNCHANGED <<authVars, tokVars, rankVars, qualVars, resVars, listVars, dlVars, crawlVars, cliVars, batchVars, menuVars, runVars, fileVars, equivVars>>
SpecName == InitName /\ [][NextName]_vars

\* One batch download.
InitBatch == AuthInit /\ TokIdle /\ RankIdle /\ QualIdle /\ ResIdle /\ ListIdle /\ DlIdle /\ CrawlIdle /\ CliIdle /\ NameIdle /\ BatchInit /\ MenuIdle /\ RunIdle /\ FileIdle /\ EquivIdle
NextBatch ==
    \/ BatchEnter /\ UNCHANGED <<authVars, tokVars, rankVars, qualVars, resVars, listVars, dlVars, crawlVars, cliVars, nameVars, menuVars, runVars, fileVars, equivVars>>
    \/ BatchSetup /\ UNCHANGED <<authVars, tokVars, rankVars, qualVars, resVars, listVars, dlVars, crawlVars, cliVars, nameVars, menuVars, runVars, fileVars, equivVars>>
    \/ BatchSetupFails /\ UNCHANGED <<authVars, tokVars, rankVars, qualVars, resVars, listVars, dlVars, crawlVars, cliVars, nameVars, menuVars, runVars, fileVars, equivVars>>
    \/ BatchAttempt /\ UNCHANGED <<authVars, tokVars, rankVars, qualVars, resVars, listVars, dlVars, crawlVars, cliVars, nameVars, menuVars, runVars, fileVars, equivVars>>
    \/ BatchEscapes /\ UNCHANGED <<authVars, tokVars, rankVars, qualVars, resVars, listVars, dlVars, crawlVars, cliVars, nameVars, menuVars, runVars, fileVars, equivVars>>
    \/ BatchReturn /\ UNCHANGED <<authVars, tokVars, rankVars, qualVars, resVars, listVars, dlVars, crawlVars, cliVars, nameVars, menuVars, runVars, fileVars, equivVars>>
SpecBatch == InitBatch /\ [][NextBatch]_vars

\* One session of the interactive menu, logged in.
InitMenu == AuthInit /\ TokIdle /\ RankIdle /\ QualIdle /\ ResIdle /\ ListIdle /\ DlIdle /\ CrawlIdle /\ CliIdle /\ NameIdle /\ BatchIdle /\ MenuInit /\ RunIdle /\ FileIdle /\ EquivIdle
NextMenu ==
    \/ MenuDownloadVideo /\ UNCHANGED <<authVars, tokVars, rankVars, qualVars, resVars, listVars, dlVars, crawlVars, cliVars, nameVars, batchVars, runVars, fileVars, equivVars>>
    \/ MenuDownloadFolder /\ UNCHANGED <<authVars, tokVars, rankVars, qualVars, resVars, listVars, dlVars, crawlVars, cliVars, nameVars, batchVars, runVars, fileVars, equivVars>>
    \/ MenuBrowseFolder /\ UNCHANGED <<authVars, tokVars, rankVars, qualVars, resVars, listVars, dlVars, crawlVars, cliVars, nameVars, batchVars, runVars, fileVars, equivVars>>
    \/ MenuShowVideoInfo /\ UNCHANGED <<authVars, tokVars, rankVars, qualVars, resVars, listVars, dlVars, crawlVars, cliVars, nameVars, batchVars, runVars, fileVars, equivVars>>
SpecMenu == InitMenu /\ [][NextMenu]_vars

\* The interactive runner under any sequence of menu choices.
InitRun == AuthInit /\ TokIdle /\ RankIdle /\ QualIdle /\ ResIdle /\ ListIdle /\ DlIdle /\ CrawlIdle /\ CliIdle /\ NameIdle /\ BatchIdle /\ MenuIdle /\ RunInit /\ FileIdle /\ EquivIdle
NextRun ==
    \/ RunLogin /\ UNCHANGED <<tokVars, rankVars, qualVars, resVars, listVars, dlVars, crawlVars, cliVars, nameVars, batchVars, menuVars, fileVars, equivVars>>
    \/ RunLogout /\ UNCHANGED <<tokVars, rankVars, qualVars, resVars, listVars, dlVars, crawlVars, cliVars, nameVars, batchVars, menuVars, fileVars, equivVars>>
    \/ RunOther /\ UNCHANGED <<tokVars, rankVars, qualVars, resVars, listVars, dlVars, crawlVars, cliVars, nameVars, batchVars, menuVars, fileVars, equivVars>>
    \/ RunLeave /\ UNCHANGED <<tokVars, rankVars, qualVars, resVars, listVars, dlVars, crawlVars, cliVars, nameVars, batchVars, menuVars, fileVars, equivVars>>
SpecRun == InitRun /\ [][NextRun]_vars

\* The file of a download for every title and label a page can carry.
InitFile == AuthInit /\ TokIdle /\ RankIdle /\ QualIdle /\ ResIdle /\ ListIdle /\ DlIdle /\ CrawlIdle /\ CliIdle /\ NameIdle /\ BatchIdle /\ MenuIdle /\ RunIdle /\ FileInit /\ EquivIdle
NextFile == FileBuild /\ UNCHANGED <<authVars, tokVars, rankVars, qualVars, resVars, listVars, dlVars, crawlVars, cliVars, nameVars, batchVars, menuVars, runVars, equivVars>>
SpecFile == InitFile /\ [][NextFile]_vars

\* The folder crawl over every page range, each step taken once it can be:
\* the crawl is one thread that runs until it returns or raises.
InitPages == AuthInit /\ TokIdle /\ RankIdle /\ QualIdle /\ ResIdle /\ ListIdle /\ DlIdle /\ PagesInit /\ CliIdle /\ NameIdle /\ BatchIdle /\ MenuIdle /\ RunIdle /\ FileIdle /\ EquivIdle
NextPages ==
    \/ PagesFetch /\ UNCHANGED <<authVars, tokVars, rankVars, qualVars, resVars, listVars, dlVars, cliVars, nameVars, batchVars, menuVars, runVars, fileVars, equivVars>>
    \/ PagesAttempt /\ UNCHANGED <<authVars, tokVars, rankVars, qualVars, resVars, listVars, dlVars, cliVars, nameVars, batchVars, menuVars, runVars, fileVars, equivVars>>
    \/ CrawlPageDone /\ UNCHANGED <<authVars, tokVars, rankVars, qualVars, resVars, listVars, dlVars, cliVars, nameVars, batchVars, menuVars, runVars, fileVars, equivVars>>
    \/ CrawlEnd /\ UNCHANGED <<authVars, tokVars, rankVars, qualVars, resVars, listVars, dlVars, cliVars, nameVars, batchVars, menuVars, runVars, fileVars, equivVars>>
SpecPages == InitPages /\ [][NextPages]_vars /\ WF_vars(NextPages)

\* The two crawl implementations on every folder.
InitEquiv == AuthInit /\ TokIdle /\ RankIdle /\ QualIdle /\ ResIdle /\ ListIdle /\ DlIdle /\ CrawlIdle /\ CliIdle /\ NameIdle /\ BatchIdle /\ MenuIdle /\ RunIdle /\ FileIdle /\ EquivInit
NextEquiv == Compare /\ UNCHANGED <<authVars, tokVars, rankVars, qualVars, resVars, listVars, dlVars, crawlVars, cliVars, nameVars, batchVars, menuVars, runVars, fileVars>>
SpecEquiv == InitEquiv /\ [][NextEquiv]_vars

----------------------------------------------------------------------------
(* Properties *)

\* needle occurs in hay, letter case apart: some stretch of hay is needle
\* once both are lower-cased.
CiContains(hay, needle) ==
    \E a \in 1..(Len(hay) + 1) :
        \E b \in (a - 1)..Len(hay) : Lower(SubSeq(hay, a, b)) = Lower(needle)

\* p occurs in l as written.
IsSub(p, l) ==
    \E a \in 1..(Len(l) + 1) : \E b \in (a - 1)..Len(l) : SubSeq(l, a, b) = p

Failure(kind) == kind \in {Transport, HttpError}

\* C1: no content operation (listing a search or a folder, resolving a
\* video, downloading) is started while the session is anonymous, however
\* the command is invoked, --no-login included.
C1_NoAnonymousContentOp ==
    \A i \in 1..Len(cli_ops) : cli_ops[i].authed

\* C2: a login made while anonymous that raises nothing ends authenticated
\* as the user, returning true, exactly when the response carries the
\* premium marker and the username, letter case apart; otherwise it ends
\* anonymous with no identity, returning false.
C2_LoginOutcome ==
    (last.op = "login" /\ ~last.pre.logged_in /\ last.exc = NoExc) =>
        IF /\ last.post.kind = Ok
           /\ CiContains(last.post.text, "premium")
           /\ CiContains(last.post.text, last.user)
        THEN logged_in /\ username = Some(last.user) /\ last.ret
        ELSE ~logged_in /\ username = None /\ ~last.ret

\* C2 happens: bob logs in on a response that spells both words in capitals.
C2_Witness ==
    /\ last.op = "login"
    /\ ~last.pre.logged_in
    /\ last.user = "bob"
    /\ last.post.text = "Witaj BOB! Konto PREMIUM"
    /\ logged_in
    /\ username = Some("bob")

C4_Logout ==
    last.op = "logout" =>
        /\ ~last.pre.logged_in =>
                /\ last.ret /\ last.exc = NoExc
                /\ last.reqs = <<>>
                /\ AuthState = last.pre
        /\ last.pre.logged_in =>
                /\ last.reqs = <<Get(logout_url)>>
                /\ last.post.kind = Ok => ~logged_in /\ username = None /\ last.ret

\* C4 happens: an authenticated session is logged out by a request that succeeds.
C4_Witness ==
    /\ last.op = "logout"
    /\ last.pre.logged_in
    /\ last.post.kind = Ok
    /\ ~logged_in

\* The token a source of the page carries: the value (content, for meta) of
\* its first element that has a non-empty one.
SourceToken(page, tag, name) ==
    LET hits == {i \in 1..Len(page) :
                    /\ page[i].tag = tag /\ page[i].name = name
                    /\ Truthy(IF tag = "meta" THEN page[i].content ELSE page[i].value)}
        el == page[CHOOSE i \in hits : \A j \in hits : i <= j]
    IN  IF hits = {} THEN None
        ELSE IF tag = "meta" THEN el.content ELSE el.value

\* The sources in the order of their priority.
SourceTokens(page) ==
    << SourceToken(page, "input", "_token"), SourceToken(page, "input", "csrf_token"),
       SourceToken(page, "input", "token"), SourceToken(page, "meta", "csrf-token"),
       ScriptToken(page) >>

\* C5: the resolver returns the token of the highest-priority source that
\* carries one (input _token, input csrf_token, input token, meta
\* csrf-token, script pairs), never an empty token, and fails with
\* TokenError only when no source carries a token.
C5_HighestPrioritySource ==
    tok_out.done =>
        LET src == SourceTokens(tok_page)
            have == {k \in 1..Len(src) : src[k].some}
        IN  IF have = {} THEN tok_out.exc = TokenError
            ELSE /\ tok_out.exc = NoExc
                 /\ tok_out.val # ""
                 /\ tok_out.val = src[CHOOSE k \in have : \A m \in have : k <= m].val

\* C6: rank("FHD") = rank("1080p") = 1080, rank("mystery") = 0, and a label
\* that is a key of the table, in any letter case, ranks to the value the
\* table lists for it.
C6_TableRanks ==
    rk_out.done =>
        /\ rk_label \in {"FHD", "1080p"} => rk_out.rank = 1080
        /\ rk_label = "mystery" => rk_out.rank = 0
        /\ \A i \in 1..Len(QualityTable) :
                Lower(rk_label) = QualityTable[i].key => rk_out.rank = QualityTable[i].value

\* The entry of the map at position i.
EntryAt(m, i) == Picked(m[i].label, m[i].url)

\* C7: on a non-empty map best returns an entry of the map whose rank is the
\* greatest of the map, and the first such entry in the map's order.
C7_BestIsFirstMax ==
    (q_out.done /\ q_map # <<>>) =>
        \E i \in 1..Len(q_map) :
            /\ q_out.best = EntryAt(q_map, i)
            /\ \A j \in 1..Len(q_map) :
                    parse_quality_from_string(q_map[j].label)
                        <= parse_quality_from_string(q_map[i].label)
            /\ \A j \in 1..(i - 1) :
                    parse_quality_from_string(q_map[j].label)
                        < parse_quality_from_string(q_map[i].label)

\* C7 happens: two labels share the greatest rank, behind a lesser label, and
\* best returns the first of the two.
C7_Witness ==
    /\ q_out.done
    /\ Len(q_map) = 3
    /\ q_map[1].label = "mystery" /\ q_map[2].label = "HD" /\ q_map[3].label = "720p"
    /\ q_out.best = EntryAt(q_map, 2)

\* C8: on a non-empty map, select with a non-empty preferred label returns
\* the entry of that label if there is one, else the first entry whose label
\* contains it, else what best returns; with no preferred label it returns
\* what best returns; the answer is always an entry of the map.
C8_Select ==
    (q_out.done /\ q_map # <<>>) =>
        LET p == q_pref.val
            given == q_pref.some /\ p # ""
            exact == {i \in 1..Len(q_map) : q_map[i].label = p}
            part == {i \in 1..Len(q_map) : IsSub(p, q_map[i].label)}
        IN  /\ \E i \in 1..Len(q_map) : q_out.select = EntryAt(q_map, i)
            /\ (given /\ exact # {}) => q_out.select.label = p
            /\ (given /\ exact = {} /\ part # {}) =>
                    q_out.select = EntryAt(q_map, CHOOSE i \in part : \A j \in part : i <= j)
            /\ (~given \/ (exact = {} /\ part = {})) => q_out.select = q_out.best

\* C8 happens: preferred "720" on {"720p": a, "1080p": b} gives ("720p", a).
C8_Witness ==
    /\ q_out.done
    /\ q_map = <<[label |-> "720p", url |-> "a"], [label |-> "1080p", url |-> "b"]>>
    /\ q_pref = Some("720")
    /\ q_out.select = Picked("720p", "a")

\* C9: on an empty map best and select both fail with VideoInfoError,
\* whatever the preferred label; neither returns a pair.
C9_EmptyMapFails ==
    (q_out.done /\ q_map = <<>>) =>
        /\ q_out.best = Raised(VideoInfoError)
        /\ q_out.select = Raised(VideoInfoError)

\* C9 happens: select on the empty map with a preferred label.
C9_Witness ==
    /\ q_out.done
    /\ q_map = <<>>
    /\ q_pref = Some("720")
    /\ q_out.select.exc = VideoInfoError

\* The script strategy yields a quality: a player_data script holds an entry
\* with a url that is read before any entry that cannot be read.
ScriptYields(page) ==
    \E k \in 1..Len(page.scripts) :
        /\ page.scripts[k].mentions
        /\ page.scripts[k].json = "qualities"
        /\ \E i \in 1..Len(page.scripts[k].qualities) :
            /\ page.scripts[k].qualities[i].kind = "url"
            /\ \A j \in 1..(i - 1) : page.scripts[k].qualities[j].kind # "bad"

\* The download page yields a quality: it was served and holds an anchor with
\* a link.
SecondYields(second) ==
    /\ second.kind = Ok
    /\ \E i \in 1..Len(second.anchors) :
            second.anchors[i].href.some /\ second.anchors[i].href.val # ""

\* The call reached the extraction of the links: the page was served, shows
\* no login wall, the url gave an id and the view count was read.
ReachedLinks ==
    /\ r_in.fetch.kind = Ok
    /\ r_out.exc # AuthenticationError
    /\ r_out.exc # ValueError
    /\ extract_video_id_from_url(r_in.url).exc = NoExc

\* C10: a descriptor returned by get_video_info has a non-empty quality map,
\* and when both strategies yield nothing (the embedded JSON malformed, the
\* request for the download page failed, ...) the call fails with
\* VideoInfoError.
C10_DescriptorHasLinks ==
    r_out.done =>
        /\ r_out.exc = NoExc => r_out.info.download_links # <<>>
        /\ (ReachedLinks /\ ~ScriptYields(r_in.fetch.page) /\ ~SecondYields(r_out.second)) =>
                r_out.exc = VideoInfoError

\* C10 happens: the only script is malformed, the page has a download
\* button, the request for the download page fails, and the call fails with
\* VideoInfoError.
C10_Witness ==
    /\ r_out.done
    /\ r_in.fetch.kind = Ok
    /\ r_in.fetch.page.scripts = <<PlayerScript("malformed", <<>>)>>
    /\ r_in.fetch.page.has_button
    /\ r_out.second.kind = Transport
    /\ r_out.exc = VideoInfoError

\* An item container that is whole: reading it does not raise, and both a
\* title selector and a url selector find an element in it.
WellFormed(c) ==
    /\ ~c.raises
    /\ (c.link_title.some \/ c.span_title.some \/ c.h3.some)
    /\ (c.link_title.some \/ c.thumbnail.some \/ c.link.some)

\* C11: a page with the login wall makes the parser fail with
\* AuthenticationError and return no record, whatever containers it holds; a
\* page without it is parsed without an exception, each container that is
\* not whole being skipped and each whole one giving a record.
C11_LoginWall ==
    l_out.done =>
        /\ l_page.login_required =>
                l_out.exc = AuthenticationError /\ l_out.results = <<>>
        /\ ~l_page.login_required =>
                /\ l_out.exc = NoExc
                /\ Len(l_out.results) =
                     Cardinality({i \in 1..Len(l_page.containers) : WellFormed(l_page.containers[i])})

\* C11 happens: a page with the login wall and a whole container fails.
C11_Witness ==
    /\ l_out.done
    /\ l_page.login_required
    /\ Len(l_page.containers) >= 1
    /\ WellFormed(l_page.containers[1])
    /\ l_out.exc = AuthenticationError

\* url is the href as it stands when it is missing, empty or starts with
\* http, and the href behind the site's origin otherwise.
IsUrlOf(url, href) ==
    IF href.some /\ href.val # "" /\ SubSeq(href.val, 1, 4) # "http"
    THEN url = Some("https://www.cda.pl" \o href.val)
    ELSE url = href

\* C12: the record of a container takes its title from the first of
\* a.link-title, span.title, div.text-container h3 that finds an element and
\* its url from the first of a.link-title, a.thumbnail, a.link that finds
\* one; a selector that finds nothing is passed over for the next.
C12_SelectorOrder ==
    (l_out.done /\ ~l_page.login_required /\ Len(l_page.containers) = 1
        /\ WellFormed(l_page.containers[1])) =>
        LET c == l_page.containers[1]
            r == l_out.results[1]
        IN  /\ Len(l_out.results) = 1
            /\ c.link_title.some => r.title = Strip(c.link_title.text)
            /\ (~c.link_title.some /\ c.span_title.some) => r.title = Strip(c.span_title.text)
            /\ (~c.link_title.some /\ ~c.span_title.some) => r.title = Strip(c.h3.text)
            /\ c.link_title.some => IsUrlOf(r.url, c.link_title.href)
            /\ (~c.link_title.some /\ c.thumbnail.some) => IsUrlOf(r.url, c.thumbnail.href)
            /\ (~c.link_title.some /\ ~c.thumbnail.some) => IsUrlOf(r.url, c.link.href)

\* C12 happens: no a.link-title, so the title comes from span.title and the
\* url from a.thumbnail although an h3 and an a.link are there too.
C12_Witness ==
    /\ l_out.done
    /\ ~l_page.login_required
    /\ Len(l_page.containers) = 1
    /\ ~l_page.containers[1].link_title.some
    /\ l_page.containers[1].span_title.some
    /\ l_page.containers[1].h3.some
    /\ l_page.containers[1].thumbnail = Elem("", Some("/video/2b"))
    /\ l_page.containers[1].link.some
    /\ l_out.results = << [title |-> "Film B", url |-> Some("https://www.cda.pl/video/2b"),
                           premium |-> FALSE] >>

\* C13: every record returned carries a url, and the url is absolute.
C13_RecordsHaveAbsoluteUrl ==
    l_out.done =>
        \A i \in 1..Len(l_out.results) :
            /\ l_out.results[i].url.some
            /\ StartsWithAt(l_out.results[i].url.val, 1, "http")

\* C14: get_video_info requests the download page only when the scripts gave
\* no quality and the download button has a link, and requests it at most
\* once; when the scripts give a quality, the video page is the only request.
C14_LazySecondRequest ==
    r_out.done =>
        /\ Len(r_out.reqs) >= 1
        /\ Len(r_out.reqs) <= 2
        /\ r_out.reqs[1] = Get(r_in.url)
        /\ Len(r_out.reqs) = 2 =>
                /\ ~ScriptYields(r_in.fetch.page)
                /\ r_in.fetch.page.has_button
                /\ r_in.fetch.page.button.some
                /\ r_in.fetch.page.button.val # ""
                /\ r_out.reqs[2] = Get(r_in.fetch.page.button.val)
        /\ ScriptYields(r_in.fetch.page) => r_out.reqs = <<Get(r_in.url)>>

\* C14 happens: a script is there but gives no quality, the button has a
\* link, and the download page is requested and gives the qualities.
C14_Witness ==
    /\ r_out.done
    /\ r_in.fetch.kind = Ok
    /\ r_in.fetch.page.scripts = <<PlayerScript("qualities", <<Entry("HD", "nourl", "")>>)>>
    /\ Len(r_out.reqs) = 2
    /\ r_out.exc = NoExc
    /\ Len(r_out.info.download_links) = 2

\* C15 as stated: a download that fails reaches its caller with the error of
\* its phase: FileError for a local write failure, DownloadError for a
\* transport failure, VideoInfoError for a failure of the resolution.
C15_ErrorKindByPhase ==
    (d_pc = "done" /\ d_out.exc # NoExc) =>
        /\ d_out.inner = FileError => d_out.exc = FileError
        /\ d_out.inner = DownloadError => d_out.exc = DownloadError
        /\ d_out.cause = VideoInfoError => d_out.exc = VideoInfoError

\* C16: once _download_file is left, by its end or by an exception, the
\* handle of the destination file is closed; and no step removes the file or
\* takes away bytes already written.
C16_FileClosedAndKept ==
    /\ [](d_pc \in {"unwound", "returned", "done"} => ~d_file.open)
    /\ [][d_file.exists => (d_file'.exists /\ d_file'.size >= d_file.size)]_vars

\* C16 happens: the stream breaks after bytes were written; the file is
\* closed and holds them.
C16_Witness ==
    /\ d_pc = "unwound"
    /\ d_out.inner = DownloadError
    /\ d_file.exists
    /\ ~d_file.open
    /\ d_file.size = 400

\* The sum of the sizes of the first k chunks.
RECURSIVE SumTo(_, _)
SumTo(chunks, k) == IF k = 0 THEN 0 ELSE SumTo(chunks, k - 1) + chunks[k]

\* The position of the n-th chunk that is not empty.
NthWritten(chunks, n) ==
    CHOOSE k \in 1..Len(chunks) :
        chunks[k] > 0 /\ Cardinality({j \in 1..k : chunks[j] > 0}) = n

\* C17: the callback has been called once for each chunk written that is not
\* empty, the n-th call with the sum of the sizes of the chunks up to the
\* n-th such chunk (so with more each time) and with the declared content
\* length, 0 when none is declared; after a transfer that succeeds the last
\* call carries the number of bytes delivered.
C17_Progress ==
    LET chunks == d_in.source.chunks
        declared == IF d_in.source.content_length.some
                    THEN DecVal(d_in.source.content_length.val) ELSE 0
    IN  /\ ~d_in.callback => d_calls = <<>>
        /\ d_in.callback =>
            /\ Len(d_calls) = Cardinality({k \in 1..d_loc.i : chunks[k] > 0})
            /\ \A n \in 1..Len(d_calls) :
                /\ d_calls[n].downloaded = SumTo(chunks, NthWritten(chunks, n))
                /\ d_calls[n].total = declared
                /\ n > 1 => d_calls[n].downloaded > d_calls[n - 1].downloaded
            /\ ((d_pc = "returned" \/ (d_pc = "done" /\ d_out.exc = NoExc)) /\ d_calls # <<>>) =>
                    d_calls[Len(d_calls)].downloaded = SumTo(chunks, Len(chunks))

\* C17 happens: 1000 bytes declared and delivered as 400, nothing, 600; the
\* last call reports 1000 of 1000.
C17_Witness ==
    /\ d_pc = "done"
    /\ d_out.exc = NoExc
    /\ d_in.source.chunks = <<400, 0, 600>>
    /\ d_in.source.content_length = Some("1000")
    /\ d_calls = << [downloaded |-> 400, total |-> 1000], [downloaded |-> 1000, total |-> 1000] >>

\* C18 as stated: the pages fetched are start_page, start_page + 1, ... with
\* no gap and no repeat, and none of them is past end_page when the crawl is
\* bounded, start_page > end_page included.
C18_PagesInRange ==
    /\ \A k \in 1..Len(c_hist.fetched) : c_hist.fetched[k] = c_in.start_page + k - 1
    /\ c_in.end_page.some =>
            \A k \in 1..Len(c_hist.fetched) : c_hist.fetched[k] <= c_in.end_page.val

\* C19: when the crawl has ended, downloaded + skipped is the number of
\* records on the pages that were fetched and processed.
C19_TotalsCoverRecords ==
    c_pc = "done" => c_out.downloaded + c_out.skipped = c_hist.seen

\* C19 happens: premium_only, 3 records on page 1 of which 1 is dropped by
\* the filter, 1 fails and 1 is downloaded, and none on page 2.
C19_Witness ==
    /\ c_pc = "done"
    /\ c_in.premium_only
    /\ c_hist.fetched = <<1, 2>>
    /\ c_hist.seen = 3
    /\ c_out.downloaded = 1
    /\ c_out.skipped = 2

\* The counters of the crawl, those of the page under way included.
Downloaded == c_tot.downloaded + c_loc.downloaded
Skipped == c_tot.skipped + c_loc.skipped

\* C20: the records dispatched of a page are attempted once each in listing
\* order, all of them whatever fails; a failed attempt adds exactly one to
\* the skipped counter; and no item failure ends the crawl: after a page with
\* records it ends only past end_page.
C20_ItemsIndependent ==
    /\ [](c_loc.fetched = "records" =>
            /\ Len(c_hist.attempts) <= Len(c_loc.results)
            /\ \A k \in 1..Len(c_hist.attempts) :
                    /\ c_hist.attempts[k].index = k
                    /\ c_hist.attempts[k].url = c_loc.results[k].url
            /\ c_pc # "items" => Len(c_hist.attempts) = Len(c_loc.results)
            /\ c_pc # "raised"
            /\ c_pc \in {"end", "done"} =>
                    (c_in.end_page.some /\ c_page > c_in.end_page.val))
    /\ [][Len(c_hist.attempts') = Len(c_hist.attempts) + 1 =>
            IF c_hist.attempts'[Len(c_hist.attempts')].raised = NoExc
            THEN Downloaded' = Downloaded + 1 /\ Skipped' = Skipped
            ELSE Skipped' = Skipped + 1 /\ Downloaded' = Downloaded]_vars

\* C20 happens: on the second page fetched, the first of three records
\* fails, and the second and the third are attempted and downloaded.
C20_Witness ==
    /\ Len(c_hist.fetched) = 2
    /\ Len(c_hist.attempts) = 3
    /\ c_hist.attempts[1].raised = DownloadError
    /\ c_hist.attempts[2].raised = NoExc
    /\ c_hist.attempts[3].raised = NoExc
    /\ Skipped >= 1

\* C21 as stated: a crawl that met the login wall, on a listing page or
\* under the download of an item, has been left by an exception: the wall is
\* neither counted as a skipped item nor turned into the end of the crawl.
C21_AuthFailureAborts ==
    /\ c_hist.fetch_exc = AuthenticationError =>
            (c_pc = "raised" /\ c_out.exc = AuthenticationError)
    /\ \A k \in 1..Len(c_hist.attempts) :
            c_hist.attempts[k].cause = AuthenticationError =>
                (c_pc = "raised" /\ c_out.exc # NoExc)

\* C22 as stated: with premium_only every record dispatched is premium, and
\* the skipped count the crawl reports is the number of items whose download
\* failed, the records the filter dropped not included.
C22_FilteredCountedApart ==
    /\ (c_in.premium_only /\ c_loc.fetched = "records") =>
            \A k \in 1..Len(c_loc.results) : c_loc.results[k].premium
    /\ c_pc = "done" => c_out.skipped = c_hist.failed

\* C23: once search_in_folder has raised SearchError the crawl is over: no
\* item is attempted and no page is fetched again or further, and the crawl
\* returns the totals of the pages done before: the items downloaded, and
\* the items failed and dropped.
C23_FetchFailureEndsCrawl ==
    /\ [](c_hist.fetch_exc = SearchError =>
            /\ c_pc \in {"end", "done"}
            /\ c_hist.attempts = <<>>
            /\ c_hist.fetched[Len(c_hist.fetched)] = c_page
            /\ \A k \in 1..(Len(c_hist.fetched) - 1) : c_hist.fetched[k] < c_page
            /\ c_pc = "done" =>
                    /\ c_out.exc = NoExc
                    /\ c_out.downloaded = c_hist.ok
                    /\ c_out.skipped = c_hist.failed + c_hist.dropped)
    /\ [][c_hist.fetch_exc = SearchError => c_hist' = c_hist]_vars

\* C23 happens: page 1 gave records, of which one was downloaded and one
\* failed, the request for page 2 failed, and the crawl returned 1 and 1.
C23_Witness ==
    /\ c_pc = "done"
    /\ c_hist.fetch_exc = SearchError
    /\ c_hist.fetched = <<1, 2>>
    /\ c_hist.ok = 1
    /\ c_hist.failed = 1
    /\ c_out.downloaded = 1
    /\ c_out.skipped = 1

\* The fetches, attempts and sleeps of the crawl, in order.
CrawlLog == c_hist.log

\* C30: in the log of the crawl an attempt is followed by a sleep or by
\* nothing, never directly by an attempt or a fetch; sleep(1) stands between
\* two attempts of one page, so none follows the last item; sleep(2) stands
\* before a fetch, every fetch but the first has one before it, and none is
\* left at the end of the crawl.
C30_Pacing ==
    /\ \A k \in 1..Len(CrawlLog) :
        /\ CrawlLog[k] = "item" =>
                (k < Len(CrawlLog) => CrawlLog[k + 1] \in {"sleep(1)", "sleep(2)"})
        /\ CrawlLog[k] = "sleep(1)" =>
                /\ k > 1 /\ CrawlLog[k - 1] = "item"
                /\ IF k < Len(CrawlLog) THEN CrawlLog[k + 1] = "item"
                   ELSE c_pc = "items" /\ c_loc.i < Len(c_loc.results)
        /\ CrawlLog[k] = "sleep(2)" =>
                IF k < Len(CrawlLog) THEN CrawlLog[k + 1] = "fetch" ELSE c_pc = "fetch"
        /\ CrawlLog[k] = "fetch" => (k > 1 => CrawlLog[k - 1] = "sleep(2)")
    /\ c_loc.fetched = "records" =>
            Len(SelectSeq(CrawlLog, LAMBDA e : e = "sleep(1)")) + Len(c_hist.fetched)
                >= Len(SelectSeq(CrawlLog, LAMBDA e : e = "item"))

\* C30 happens: a page of two records, the sleep between them, the sleep
\* after the page, and the fetch of an empty page that ends the crawl.
C30_Witness ==
    /\ c_pc = "done"
    /\ CrawlLog = <<"fetch", "item", "sleep(1)", "item", "sleep(2)", "fetch">>

\* The number the digits of s at positions a..e write in base ten.
RECURSIVE RunValue(_, _, _)
RunValue(s, a, e) == IF e < a THEN 0 ELSE 10 * RunValue(s, a, e - 1) + DigitVal(Ch(s, e))

\* The keys of the table in the order the claim scans them.
ScanOrder == <<"hd", "fhd", "qhd", "uhd", "4k", "sd", "ld">>

\* The value the table lists for key.
Listed(key) == QualityTable[CHOOSE i \in 1..Len(QualityTable) : QualityTable[i].key = key].value

\* C29: the rank of a label with a digit is the number written by its first
\* run of digits; of a label without one, the value listed for the first key
\* in the order hd, fhd, qhd, uhd, 4k, sd, ld that the label contains, letter
\* case ignored; of any other label 0. Every label has a rank, and none is
\* negative.
C29_Rank ==
    rk_out.done =>
        /\ rk_out.rank \in Nat
        /\ \A a \in 1..Len(rk_label) : \A e \in a..Len(rk_label) :
                ( /\ \A k \in 1..(a - 1) : ~IsDigit(Ch(rk_label, k))
                  /\ \A k \in a..e : IsDigit(Ch(rk_label, k))
                  /\ (e = Len(rk_label) \/ ~IsDigit(Ch(rk_label, e + 1))) )
                    => rk_out.rank = RunValue(rk_label, a, e)
        /\ (\A k \in 1..Len(rk_label) : ~IsDigit(Ch(rk_label, k))) =>
                /\ \A i \in 1..Len(ScanOrder) :
                        ( /\ CiContains(rk_label, ScanOrder[i])
                          /\ \A j \in 1..(i - 1) : ~CiContains(rk_label, ScanOrder[j]) )
                            => rk_out.rank = Listed(ScanOrder[i])
                /\ (\A i \in 1..Len(ScanOrder) : ~CiContains(rk_label, ScanOrder[i]))
                        => rk_out.rank = 0

\* C29 happens: the digits of FHD1080 decide, not the key it contains.
C29_Witness ==
    /\ rk_out.done
    /\ rk_label = "FHD1080"
    /\ rk_out.rank = 1080

\* C24 as stated: when the batch is over, by its return or by an exception
\* or interrupt, the downloader's download_dir is the one it had before the
\* batch, in both implementations.
C24_DirRestored ==
    bt_pc \in {"done", "raised"} => bt_dir = download_folder

\* C25 as stated: every menu operation of the runner leaves the downloader's
\* download_dir as it found it, whatever directory was entered for it.
C25_DirScopedToOperation ==
    \A k \in 1..Len(mn_log) : mn_log[k].after = mn_log[k].before

\* C26: the process ends with 0 after `return 0`, with 1 after a failure (an
\* exception of the application or any other, a refused login) and with 130
\* after an interrupt; and when the command ends with the session logged in,
\* the next step is a logout that sends the logout request.
C26_LogoutAndExitCode ==
    /\ [](cli_pc = "exit" =>
            /\ cli_end = "return" => cli_exit = 0
            /\ cli_end \in {"CDADownloaderException", "Exception", "login refused"} => cli_exit = 1
            /\ cli_end = "KeyboardInterrupt" => cli_exit = 130
            /\ cli_end \in {"return", "CDADownloaderException", "Exception", "login refused",
                            "KeyboardInterrupt"})
    /\ [][(cli_pc = "finally" /\ logged_in) =>
            /\ cli_pc' = "exit"
            /\ last'.op = "logout"
            /\ last'.pre.logged_in
            /\ last'.reqs = <<Get(logout_url)>>]_vars

\* C26 happens: a command is interrupted after a content operation of a
\* logged-in session, the logout request is sent, and the exit code is 130.
C26_Witness ==
    /\ cli_pc = "exit"
    /\ cli_end = "KeyboardInterrupt"
    /\ cli_exit = 130
    /\ Len(cli_ops) >= 1
    /\ last.op = "logout"
    /\ last.pre.logged_in
    /\ last.reqs = <<Get(logout_url)>>

\* C27 as stated: when the batch has returned, every item downloaded has its
\* own whole file under the download directory, named by its sanitized title
\* and quality, and the files are as many as the items downloaded.
C27_OneFilePerVideo ==
    bt_pc = "done" =>
        /\ Cardinality({f \in bt_files : f.whole}) = bt_out.downloaded
        /\ \A k \in 1..Len(bt_loc.done) :
                \E f \in bt_files :
                    /\ f.item = bt_loc.done[k]
                    /\ f.whole
                    /\ f.path = FilePath(IF bt_in.download_dir.some THEN bt_in.download_dir.val
                                         ELSE download_folder,
                                         bt_in.results[bt_loc.done[k]].title,
                                         bt_in.results[bt_loc.done[k]].quality)

\* The maximal runs of whitespace in s, counted by where they start.
SpaceRuns(s) ==
    Cardinality({i \in 1..Len(s) :
                    IsSpace(Ch(s, i)) /\ (i = 1 \/ ~IsSpace(Ch(s, i - 1)))})

\* The occurrences of c in s.
Count(s, c) == Cardinality({i \in 1..Len(s) : Ch(s, i) = c})

\* C28: the name sanitize_filename makes of a title has none of the
\* characters \ / * ? : " < > |, no whitespace, and at most 80 characters;
\* and when the title has no forbidden character and no "_" of its own and
\* the name is not cut, the name has one "_" for each run of whitespace.
C28_Sanitized ==
    nm_out.done =>
        /\ \A k \in 1..Len(nm_out.name) :
                /\ Ch(nm_out.name, k) \notin {"\\", "/", "*", "?", ":", "\"", "<", ">", "|"}
                /\ Ch(nm_out.name, k) \notin {" ", "\t", "\n"}
        /\ Len(nm_out.name) <= 80
        /\ ( /\ \A k \in 1..Len(nm_title) : ~IsForbidden(Ch(nm_title, k)) /\ Ch(nm_title, k) # "_"
             /\ Len(nm_out.name) < 80 )
                => Count(nm_out.name, "_") = SpaceRuns(nm_title)

\* C28 happens: a title of 84 characters with two blanks is made into a
\* name of 80 characters with two "_".
C28_Witness ==
    /\ nm_out.done
    /\ nm_title = "abcdefghijklmnopqrstuvwxyzabcdefghijklm "
                    \o "abcdefghijklmnopqrstuvwxyzabcdefghijklm " \o "Film"
    /\ Len(nm_out.name) = 80
    /\ Count(nm_out.name, "_") = 2

\* ---- C31 ----
\* s[a..b] is a maximal run of word characters that starts at a.
WordRun(s, a, b) ==
    /\ a <= b
    /\ b <= Len(s)
    /\ \A k \in a..b : IsWord(Ch(s, k))
    /\ (b = Len(s) \/ ~IsWord(Ch(s, b + 1)))

\* .../video/<id> matches url at i with <id> ending at b.
VideoMatch(url, i, b) ==
    /\ StartsWithAt(url, i, "cda.pl/video/")
    /\ WordRun(url, i + 13, b)

\* .../<user>/<id> matches url at i with <id> = url[a..b].
UserMatch(url, i, a, b) ==
    /\ StartsWithAt(url, i, "cda.pl/")
    /\ WordRun(url, i + 7, a - 2)
    /\ Ch(url, a - 1) = "/"
    /\ WordRun(url, a, b)

MatchesVideo(url) == \E i, b \in 1..Len(url) : VideoMatch(url, i, b)
MatchesUser(url) == \E i, a, b \in 1..Len(url) : UserMatch(url, i, a, b)

\* The page of the video was fetched and shows no login wall, so that the
\* resolver goes on to take the id from the URL.
IdStepReached ==
    /\ r_out.done
    /\ r_in.fetch.kind = Ok
    /\ ~(r_in.fetch.page.premium_info.some
         /\ Contains(Lower(r_in.fetch.page.premium_info.val), "zaloguj"))

\* C31: once the resolver takes the id from the URL, the id is the group of
\* the leftmost match of .../video/<id> when that pattern matches (also when
\* .../<user>/<id> matches too, and further left), otherwise the second group
\* of the leftmost match of .../<user>/<id>; a URL that matches neither makes
\* the resolve fail with VideoInfoError.
C31_IdFromUrl ==
    IdStepReached =>
        LET url == r_in.url
            e == extract_video_id_from_url(url)
        IN  /\ \A i, b \in 1..Len(url) :
                (VideoMatch(url, i, b) /\ ~\E j \in 1..(i - 1), c \in 1..Len(url) : VideoMatch(url, j, c))
                    => /\ e = [exc |-> NoExc, val |-> SubSeq(url, i + 13, b)]
                       /\ (r_out.exc = NoExc => r_out.info.video_id = SubSeq(url, i + 13, b))
            /\ ~MatchesVideo(url) =>
                \A i, a, b \in 1..Len(url) :
                    (UserMatch(url, i, a, b)
                        /\ ~\E j \in 1..(i - 1), c, d \in 1..Len(url) : UserMatch(url, j, c, d))
                    => /\ e = [exc |-> NoExc, val |-> SubSeq(url, a, b)]
                       /\ (r_out.exc = NoExc => r_out.info.video_id = SubSeq(url, a, b))
            /\ (~MatchesVideo(url) /\ ~MatchesUser(url)) =>
                /\ e.exc = VideoInfoError
                /\ r_out.exc = VideoInfoError

\* A resolve of a URL where .../<user>/<id> matches to the left of
\* .../video/<id> returned the id of the latter.
C31_Witness ==
    /\ IdStepReached
    /\ r_out.exc = NoExc
    /\ r_in.url = "https://www.cda.pl/u1/v2?r=cda.pl/video/77"
    /\ MatchesUser(r_in.url)
    /\ r_out.info.video_id = "77"

\* A resolve of a URL that matches neither pattern failed with VideoInfoError.
C31_WitnessNoMatch ==
    /\ IdStepReached
    /\ ~MatchesVideo(r_in.url)
    /\ ~MatchesUser(r_in.url)
    /\ r_out.exc = VideoInfoError

\* ---- C32 ----
\* The last call failed: it returned false or raised.
CallFailed == last.op # "none" /\ (~last.ret \/ last.exc # NoExc)

\* C32: after every login, logout and ensure_logged_in call, whatever its
\* outcome, logged_in is true exactly when a username is recorded; the state
\* differs from the state before the call only after a login that posted the
\* form and returned true or a logout whose request succeeded and that
\* returned true; a call that returned false or raised left the state as it
\* was.
C32_AuthStateConsistent ==
    /\ logged_in <=> username # None
    /\ last.pre.logged_in <=> last.pre.username # None
    /\ AuthState # last.pre =>
        \/ /\ last.op = "login"
           /\ last.ret /\ last.exc = NoExc
           /\ last.post.kind = Ok
           /\ ~last.pre.logged_in /\ logged_in /\ username = Some(last.user)
        \/ /\ last.op = "logout"
           /\ last.ret /\ last.exc = NoExc
           /\ last.post.kind = Ok
           /\ last.pre.logged_in /\ ~logged_in
    /\ CallFailed => AuthState = last.pre

\* A login whose form post failed on transport raised and left the session
\* anonymous with no username.
C32_Witness ==
    /\ last.op = "login"
    /\ last.exc = AuthenticationError
    /\ last.post.kind = Transport
    /\ AuthState = last.pre
    /\ ~logged_in /\ username = None

\* ---- C33 ----
\* C33: a login called on an authenticated session returns true, raises
\* nothing, issues no request and leaves logged_in and the username as they
\* were, whatever username and password it is called with.
C33_LoginWhenAuthenticated ==
    (last.op = "login" /\ last.pre.logged_in) =>
        /\ last.ret
        /\ last.exc = NoExc
        /\ last.reqs = <<>>
        /\ AuthState = last.pre

\* A session authenticated as one user was asked to log in as another user
\* with the other password.
C33_Witness ==
    /\ last.op = "login"
    /\ last.pre.logged_in
    /\ last.pre.username = Some("bob")
    /\ last.user = "Al"
    /\ last.password = "bad"
    /\ last.ret
    /\ username = Some("bob")

\* ---- C34 ----
\* The i-th operation of the runner was a logout of an authenticated
\* session with its username whose request failed (no answer, or an error
\* status).
LogoutFailedAt(i) ==
    /\ rn_log[i].op = "logout"
    /\ rn_log[i].at \in {"none", "end"}
    /\ rn_log[i].pre.logged_in
    /\ rn_log[i].pre.username # None
    /\ rn_log[i].resp \in {Transport, HttpError}

\* C34: a logout of an authenticated session whose request fails returns
\* false without raising and leaves logged_in and the username of the
\* service, and the runner's flag, as they were; the logout the runner makes
\* next (from the menu or when the loop is left) issues the logout request
\* again.
C34_FailedLogoutKeepsSession ==
    \A i \in 1..Len(rn_log) :
        LogoutFailedAt(i) =>
            /\ ~rn_log[i].ret
            /\ rn_log[i].exc = NoExc
            /\ rn_log[i].reqs = <<Get(logout_url)>>
            /\ rn_log[i].post = rn_log[i].pre
            /\ rn_log[i].flag
            /\ (/\ i < Len(rn_log)
                /\ rn_log[i + 1].op \in {"logout", "leave"}
                /\ rn_log[i + 1].at # "call")
                    => rn_log[i + 1].reqs = <<Get(logout_url)>>

\* A logout failed on transport and the logout chosen next from the menu
\* sent the request again, this time with success.
C34_Witness ==
    \E i \in 1..(Len(rn_log) - 1) :
        /\ LogoutFailedAt(i)
        /\ rn_log[i].resp = Transport
        /\ rn_log[i + 1].op = "logout"
        /\ rn_log[i + 1].reqs = <<Get(logout_url)>>
        /\ rn_log[i + 1].ret
        /\ ~logged_in

\* ---- C39 ----
\* C39: whenever the runner is at its menu, after any operations with any
\* outcome, its own logged_in flag equals the logged_in of the service.
C39_FlagMatchesSession == rn_pc = "menu" => rn_logged_in = logged_in

\* No operation so far was interrupted between the service's first
\* assignment and the runner's own.
NoInterruptInside == \A i \in 1..Len(rn_log) : rn_log[i].at \notin {"assigned", "returned"}

\* The two flags agree as long as no interrupt arrived between the
\* assignments, whatever else the operations ended with.
FlagMatchesUnlessInterruptedInside ==
    (rn_pc = "menu" /\ NoInterruptInside) => rn_logged_in = logged_in

\* ---- C35 ----
HasForbidden(s) == \E i \in 1..Len(s) : IsForbidden(Ch(s, i))

\* C35: the name of the file download writes has no path separator and none
\* of the characters the sanitizer removes, and the path is that name
\* directly under the download directory.
C35_FileInsideDownloadDir ==
    (fn_out.done /\ fn_out.exc = NoExc) =>
        /\ ~HasForbidden(fn_out.name)
        /\ fn_out.path = fn_in.dir \o "/" \o fn_out.name

\* The name is free of the forbidden characters whenever the quality label
\* is: the title's part of the name always is.
NameSafeWhenLabelSafe ==
    (fn_out.done /\ fn_out.exc = NoExc /\ ~HasForbidden(fn_out.label)) =>
        ~HasForbidden(fn_out.name)

\* ---- C36 ----
\* The step fetches a page that has records, all of them dropped by the
\* premium filter.
FetchesAllDropped ==
    /\ c_pc = "fetch"
    /\ c_in.premium_only
    /\ c_hist'.seen > c_hist.seen
    /\ c_hist'.dropped - c_hist.dropped = c_hist'.seen - c_hist.seen

\* The step ends the loop over the pages.
LeavesLoop == c_pc \in {"fetch", "items"} /\ c_pc' \in {"end", "raised"}

\* C36: with premium_only, the fetch of a page whose records are all
\* non-premium goes on to the (empty) loop over the records kept, counting
\* the records as skipped, and the crawl then moves to the next page; the
\* loop over the pages is left only by the fetch of a page that gave no
\* record before filtering or that failed, or after a page by current_page
\* having passed end_page.
C36_FilteredPageGoesOn ==
    [][ c_in.premium_only =>
          /\ FetchesAllDropped =>
                /\ c_pc' = "items"
                /\ c_loc'.results = <<>>
                /\ c_tot'.skipped = c_tot.skipped + (c_hist'.seen - c_hist.seen)
          /\ (c_pc = "items" /\ c_loc.results = <<>>) =>
                /\ c_page' = c_page + 1
                /\ \/ c_pc' = "fetch"
                   \/ c_pc' = "end" /\ c_in.end_page.some /\ c_page + 1 > c_in.end_page.val
          /\ LeavesLoop =>
                \/ c_pc = "fetch" /\ c_hist'.seen = c_hist.seen
                \/ c_pc = "items" /\ c_in.end_page.some /\ c_page' > c_in.end_page.val
      ]_vars

\* A crawl with premium_only fetched a first page with records none of which
\* is premium, went on to the second page and ended there on a page without
\* records.
C36_Witness ==
    /\ c_in.premium_only
    /\ Len(c_hist.fetched) = 2
    /\ c_hist.seen > 0
    /\ c_hist.dropped = c_hist.seen
    /\ c_loc.fetched = "empty"
    /\ c_pc = "done"

\* ---- C37 ----
\* The crawl has returned or raised.
CrawlOver == c_pc \in {"done", "raised"}

\* The crawl is given a bound that is not below its first page.
BoundGiven == c_in.end_page.some /\ c_in.end_page.val >= c_in.start_page

\* C37, bounded crawls: a crawl given end_page >= start_page fetches at most
\* end_page - start_page + 1 pages.
C37_BoundedFetches ==
    BoundGiven => Len(c_hist.fetched) <= c_in.end_page.val - c_in.start_page + 1

\* The same for every bound but 0, which `if end_page and ...` takes for no
\* bound.
BoundedFetchesUnlessZero ==
    (BoundGiven /\ c_in.end_page.val # 0) =>
        Len(c_hist.fetched) <= c_in.end_page.val - c_in.start_page + 1

\* A crawl with a bound other than 0 comes to its end.
BoundedTerminates ==
    (c_in.end_page.some /\ c_in.end_page.val # 0) => <>CrawlOver

\* A crawl without a bound (None, or 0) leaves its loop only at a page that
\* gave no record or whose fetch failed.
UnboundedEndsOnlyOn ==
    (~(c_in.end_page.some /\ c_in.end_page.val # 0) /\ c_pc \in {"end", "done", "raised"})
        => c_loc.fetched \in {"empty", "error"}

\* A page that gives no record or whose fetch fails brings the crawl to its end.
EmptyOrFailedTerminates ==
    [](c_loc.fetched \in {"empty", "error"} => <>CrawlOver)

\* A crawl without a bound whose pages all had records is still going on
\* past page MaxPage.
UnboundedGoesOn ==
    /\ ~c_in.end_page.some
    /\ c_page = MaxPage + 1
    /\ c_pc = "fetch"
    /\ Len(c_hist.fetched) = MaxPage + 1 - c_in.start_page

\* ---- C38 ----
\* C38: on the same folder, page range and premium_only flag the two
\* implementations fetch the same pages, attempt the same items in the same
\* order, count the same downloaded and skipped totals and end the same way.
C38_SameObservation == eq_out.done => eq_out.handler = eq_out.runner

\* The two agree whenever the command handler's crawl ends normally, and
\* always on the pages fetched.
SameUnlessHandlerRaises ==
    eq_out.done =>
        /\ eq_out.handler.fetched = eq_out.runner.fetched
        /\ eq_out.handler.exc = NoExc => eq_out.handler = eq_out.runner
        /\ eq_out.handler.exc \in {NoExc, AuthenticationError}
        /\ eq_out.runner.exc = NoExc

====
